---------------------------- MODULE Spec2Model ----------------------------
(***************************************************************************)
(* Quadrant-partitioned dense field storage of SDFGrid: the schema         *)
(* registry (SDFGridCore.js evolveSchema), the dense layer cache, the      *)
(* write path and the dirty-quadrant flusher (the SDFGridLayers variant     *)
(* with write-then-read-back verification), over an IndexedDB gateway.     *)
(*                                                                         *)
(* The canvas is scaled down to DENSE_W x DENSE_H pixels; the specifications *)
(* below configure a quadrantCount that tiles it at an enumerable size.    *)
(* Field values are small non-negative integers, which a                   *)
(* Float32Array stores exactly; NaN stands for the value a Float32Array    *)
(* holds after storing undefined.                                          *)
(***************************************************************************)
EXTENDS Integers, Sequences, FiniteSets, TLC

\* ------------------------------------------------------------------ sizes
DENSE_W == 4
DENSE_H == 4
DEFAULT_QUADRANT_COUNT == 16
QUADRANT_PERSIST_RETRIES == 3

\* Largest field value a write may produce (caps addDenseFromCell).
MaxVal == 2
\* Transient gateway failures injected per run.
MaxFaults == 3
\* Largest schema id evolveSchema may allocate.
MaxSchemaId == 3

\* ------------------------------------------------------- JS value helpers
\* arr[i] of an index outside a typed array is undefined.
UNDEF == 0 - 2
\* A Float32Array holds NaN after undefined is stored into it.
NaN == 0 - 1

ToF32(v) == IF v = UNDEF THEN NaN ELSE v

\* JS `v || 0` for a number or undefined.
OrZero(v) == IF v = UNDEF \/ v = NaN THEN 0 ELSE v

\* Reading a typed array at 0-based index i.
ArrGet(arr, i) == IF i >= 0 /\ i < Len(arr) THEN arr[i + 1] ELSE UNDEF

\* Writing a typed array at 0-based index i: writes outside it are dropped.
ArrSet(arr, i, v) ==
  IF i >= 0 /\ i < Len(arr) THEN [arr EXCEPT ![i + 1] = ToF32(v)] ELSE arr

Min2(a, b) == IF a < b THEN a ELSE b
Max2(a, b) == IF a > b THEN a ELSE b

\* Math.ceil(a / b) for a >= 0, b > 0.
CeilDiv(a, b) == (a + b - 1) \div b

\* Math.ceil(Math.sqrt(n)) for n >= 1.
CeilSqrt(n) == CHOOSE c \in 1..n : c * c >= n /\ (c - 1) * (c - 1) < n

\* Position of name in a field list, 0 when absent (schema.index.get(name)
\* is the position minus one; a Map built from the list keeps, for a
\* repeated name, its last position).
IndexOf(fields, name) ==
  IF \E i \in 1..Len(fields) : fields[i] = name
  THEN CHOOSE i \in 1..Len(fields) :
         fields[i] = name /\ \A j \in (i + 1)..Len(fields) : fields[j] # name
  ELSE 0

\* ---------------------------------------------------------- arraysEqual
arraysEqualMutant(a, b) ==
  /\ Len(a) = Len(b)
  /\ {a[i] : i \in 1..Len(a)} = {b[i] : i \in 1..Len(b)}

arraysEqual(a, b) ==
  /\ Len(a) = Len(b)
  /\ \A i \in 1..Len(a) : a[i] = b[i]

\* ------------------------------------------------------- quadrant layout
_quadrantLayout(count) ==
  LET cols == CeilSqrt(count)
      rows == CeilDiv(count, cols)
  IN  [cols |-> cols, rows |-> rows,
       qW |-> CeilDiv(DENSE_W, cols), qH |-> CeilDiv(DENSE_H, rows),
       count |-> count]

\* The rectangle _sliceQuadrant/_insertQuadrant give quadrant qi.
QuadRect(lay, qi) ==
  LET col == qi % lay.cols
      row == qi \div lay.cols
      xStart == col * lay.qW
      yStart == row * lay.qH
  IN  [xStart |-> xStart, yStart |-> yStart,
       xEnd |-> Min2(xStart + lay.qW, DENSE_W),
       yEnd |-> Min2(yStart + lay.qH, DENSE_H)]

\* _ensureLayout(ctx): the layout of ctx.quadrantCount || DEFAULT_QUADRANT_COUNT.
\* ctx._quadLayout caches it and is recomputed whenever its count differs, so
\* every read of the cache yields this value.
_ensureLayout(qc) ==
  _quadrantLayout(IF qc = 0 THEN DEFAULT_QUADRANT_COUNT ELSE qc)

_quadrantIndex(lay, bx, by) ==
  (by \div lay.qH) * lay.cols + (bx \div lay.qW)

_denseIdx(F, xPix, yPix, fi) == ((yPix * DENSE_W) + xPix) * F + fi

\* Number of floats of the slice of quadrant qi with F channels.
SliceLen(lay, qi, F) ==
  LET r == QuadRect(lay, qi)
  IN  (r.xEnd - r.xStart) * (r.yEnd - r.yStart) * F

\* A slice that reads every row of the quadrant from the quadrant's first row.
_sliceQuadrantFirstRow(arr, qi, F, lay) ==
  LET r == QuadRect(lay, qi)
      qw == r.xEnd - r.xStart
  IN  [k \in 1..SliceLen(lay, qi, F) |->
         LET p == (k - 1) \div F
             fi == (k - 1) % F
             x == r.xStart + (p % qw)
         IN  ToF32(ArrGet(arr, r.yStart * DENSE_W * F + x * F + fi))]

_sliceQuadrant(arr, qi, F, lay) ==
  LET r == QuadRect(lay, qi)
      qw == r.xEnd - r.xStart
  IN  [k \in 1..SliceLen(lay, qi, F) |->
         LET p == (k - 1) \div F
             fi == (k - 1) % F
             y == r.yStart + (p \div qw)
             x == r.xStart + (p % qw)
         IN  ToF32(ArrGet(arr, y * DENSE_W * F + x * F + fi))]

\* An insert that copies only the top row of the quadrant.
_insertQuadrantTopRow(arr, qi, quad, F, lay) ==
  LET r == QuadRect(lay, qi)
      qw == r.xEnd - r.xStart
  IN  [k \in 1..Len(arr) |->
         LET pix == (k - 1) \div F
             fi == (k - 1) % F
             x == pix % DENSE_W
             y == pix \div DENSE_W
         IN  IF x >= r.xStart /\ x < r.xEnd /\ y = r.yStart
             THEN ToF32(ArrGet(quad, ((y - r.yStart) * qw + (x - r.xStart)) * F + fi))
             ELSE arr[k]]

_insertQuadrant(arr, qi, quad, F, lay) ==
  LET r == QuadRect(lay, qi)
      qw == r.xEnd - r.xStart
  IN  [k \in 1..Len(arr) |->
         LET pix == (k - 1) \div F
             fi == (k - 1) % F
             x == pix % DENSE_W
             y == pix \div DENSE_W
         IN  IF x >= r.xStart /\ x < r.xEnd /\ y >= r.yStart /\ y < r.yEnd
             THEN ToF32(ArrGet(quad, ((y - r.yStart) * qw + (x - r.xStart)) * F + fi))
             ELSE arr[k]]


\* --------------------------------------------------------------- inputs
\* z indices of the grid (effectiveCellsZ layers).
Layers == {0}

\* Field names the schemas and the writes draw from.
FieldNames == {"O2", "N2"}

\* evolveSchema arguments: a non-array (absent) argument, the empty list
\* and field lists that differ from each other in content or only in order.
EvolveInputs ==
  { [isArray |-> FALSE, names |-> <<>>],
    [isArray |-> TRUE, names |-> <<>>],
    [isArray |-> TRUE, names |-> <<"O2">>],
    [isArray |-> TRUE, names |-> <<"O2", "N2">>],
    [isArray |-> TRUE, names |-> <<"N2", "O2">>] }

\* params.fieldNames of the constructor.
InitialFields == { <<"O2">> }

\* state.cellsX = state.cellsY of the grid.
GridCells == 4

\* params.propagationDir of the constructor and of updateGrid.
DefaultDir == [x |-> 1, y |-> 0]

\* Concurrent ensureDenseLayer / write / read calls and flush runs.
TaskIds == {1, 2}
FlushIds == {1}
BufIds == 1..3
TimerIds == {1, 2}

\* Arguments of setDenseFromCell / addDenseFromCell: cells, a field and values.
WriteCells == { [x |-> 2, y |-> 2], [x |-> 3, y |-> 3] }
WriteNames == {"O2", "N2"}

\* ---------------------------------------------------------------- state
VARIABLES
  schema,         \* this.schema: [id, fieldNames] (index is IndexOf)
  db,             \* this._db is set
  dirtyIsMap,     \* this._dirtyLayers is a Map (the constructor stores a Set)
  disposed,       \* this._disposed
  quadrantCount,  \* this.quadrantCount, 0 when undefined
  cells,          \* [x, y]: state.cellsX, state.cellsY
  nuclei,         \* this._nuclei: z -> [x, y]
  dataTable,      \* sparse overlay, in insertion order: <<[x, y, z, vals]>>
  heap,           \* Float32Array objects: id -> [data, fields]
  layerCache,     \* this._layerCache: z -> buffer id
  dirtyLayers,    \* this._dirtyLayers: z -> set of quadrant indices
  flushHandle,    \* this._flushHandle: 0 null, else a timer id (pending or fired)
  timers,         \* pending setTimeout timers
  maxField,       \* this._maxField: name -> running maximum
  gwSchema,       \* meta 'schema': <<>> or <<[id, fields]>>
  gwNuc,          \* meta 'z:<z>': z -> [cx, cy, w, h]
  gwTmpl,         \* base_zero 'sid:<id>': id -> quadrant count of the template
  gwLayer,        \* overlay_layers '<z>,<qi>': <<z, qi>> -> [data, enc]
  gwLmeta,        \* overlay_layers_meta z: z -> [sid, fields]
  ops,            \* ensureDenseLayer / write / read calls in flight
  flushes,        \* _flushDirtyLayers runs in flight
  evo,            \* the evolveSchema call in flight and its last outcome
  upd,            \* the updateGrid call in flight
  initb,          \* how _initBuckets ended
  faults,         \* transient gateway failures so far
  probe,          \* what the last observing call returned, until the next
                  \* write: <<>>, a _quadrantIndex result <<[bx, by, qi]>> or
                  \* the buffer an ensureDenseLayer call found resident,
                  \* <<[z, data, n]>>
  lastWrite       \* the last write: its cell and field, whether the schema
                  \* knows the field, the value a reference fold expects
                  \* there, the schema id its call started under

memVars == <<schema, db, dirtyIsMap, disposed, quadrantCount, cells, nuclei,
             dataTable, heap, layerCache, dirtyLayers, flushHandle, timers,
             maxField>>
gwVars == <<gwSchema, gwNuc, gwTmpl, gwLayer, gwLmeta>>
taskVars == <<ops, flushes, evo, upd, initb>>
vars == <<memVars, gwVars, taskVars, faults, probe, lastWrite>>

\* A partial function with key k set to v.
PutKey(f, k, v) == [x \in (DOMAIN f) \cup {k} |-> IF x = k THEN v ELSE f[x]]

EmptyMap == [x \in {} |-> 0]

\* ------------------------------------------------------------- nucleus
\* s_a > s_b for the scores n / sqrt(m) the loop of pickNucleusByDirection
\* compares (m = 1 stands for a zero-length offset, whose n is 0).
ScoreGt(na, ma, nb, mb) ==
  IF na >= 0 /\ nb >= 0 THEN na * na * mb > nb * nb * ma
  ELSE IF na >= 0 THEN TRUE
  ELSE IF nb >= 0 THEN FALSE
  ELSE na * na * mb < nb * nb * ma

\* The four candidates C of line 4, in enumeration order.
PickCandidates(w, h) ==
  LET cx == w \div 2
      cy == h \div 2
  IN  << [x |-> cx - 1, y |-> cy - 1], [x |-> cx - 1, y |-> cy],
         [x |-> cx, y |-> cy - 1], [x |-> cx, y |-> cy] >>

\* The score s of candidate c (lines 8-9) as the pair (n, m) with s
\* proportional to n / sqrt(m): ox and oy are twice the offset of the cell
\* centre from the pivot ((w-1)/2, (h-1)/2), olen is 1 for a zero offset,
\* and a zero direction has dlen 1 and so dx = dy = 0.
PickScore(c, w, h, dir) ==
  LET ox == 2 * c.x + 1 - (w - 1)
      oy == 2 * c.y + 1 - (h - 1)
  IN  [inf |-> FALSE,
       n |-> ox * dir.x + oy * dir.y,
       m |-> IF ox = 0 /\ oy = 0 THEN 1 ELSE ox * ox + oy * oy]

\* s >= score in place of line 10's comparison.
PickBetterOrEqual(s, score) ==
  score.inf \/ ~ ScoreGt(score.n, score.m, s.n, s.m)

\* s > score (line 10); score starts at -Infinity.
PickBetter(s, score) == score.inf \/ ScoreGt(s.n, s.m, score.n, score.m)

\* The loop of lines 7-11 from candidate i on.
RECURSIVE PickLoop(_, _, _, _, _, _, _)
PickLoop(C, i, best, score, w, h, dir) ==
  IF i > Len(C) THEN best
  ELSE LET s == PickScore(C[i], w, h, dir)
       IN  IF PickBetter(s, score)
           THEN PickLoop(C, i + 1, C[i], s, w, h, dir)
           ELSE PickLoop(C, i + 1, best, score, w, h, dir)

pickNucleusByDirection(w, h, dir) ==
  LET C == PickCandidates(w, h)
  IN  PickLoop(C, 1, C[1], [inf |-> TRUE, n |-> 0, m |-> 1], w, h, dir)

\* A cx or cy that is not an integer.
NotInteger == 0 - 99

\* this._nuclei[z] as the record getNucleus tests: nuclei holds a layer only
\* when its x and y are integers.
NucleusEntry(z) ==
  IF z \in DOMAIN nuclei THEN nuclei[z] ELSE [x |-> NotInteger, y |-> NotInteger]

getNucleus(z) ==
  IF z \in DOMAIN nuclei THEN nuclei[z]
  ELSE [x |-> (cells.x \div 2) - 1, y |-> (cells.y \div 2) - 1]

\* Math.round(dx * (dense / cellsDim)): the nearest integer, halves up.
RoundScaled(dx, dense, cellsDim) ==
  (2 * dx * dense + cellsDim) \div (2 * cellsDim)

\* A mapping that measures from the centre cell and not from the nucleus.
_mapCellToDenseCentred(z, x, y) ==
  LET w == Max2(1, cells.x)
      h == Max2(1, cells.y)
      cxd == (DENSE_W \div 2) - 1
      cyd == (DENSE_H \div 2) - 1
  IN  [bx |-> Max2(0, Min2(DENSE_W - 1,
                 cxd + RoundScaled(x - ((cells.x \div 2) - 1), DENSE_W, w))),
       by |-> Max2(0, Min2(DENSE_H - 1,
                 cyd + RoundScaled(y - ((cells.y \div 2) - 1), DENSE_H, h)))]

_mapCellToDense(z, x, y) ==
  LET nuc == getNucleus(z)
      w == Max2(1, cells.x)
      h == Max2(1, cells.y)
      cxd == (DENSE_W \div 2) - 1
      cyd == (DENSE_H \div 2) - 1
  IN  [bx |-> Max2(0, Min2(DENSE_W - 1, cxd + RoundScaled(x - nuc.x, DENSE_W, w))),
       by |-> Max2(0, Min2(DENSE_H - 1, cyd + RoundScaled(y - nuc.y, DENSE_H, h)))]

\* ------------------------------------------------------- initial state
\* A task slot with no call in flight; a call in flight records its
\* arguments, what it captured at the call and where it is suspended.
NoOp == [op |-> "idle", pc |-> "idle", z |-> 0, x |-> 0, y |-> 0,
         name |-> "", v |-> 0, ts |-> [id |-> 0, fieldNames |-> <<>>],
         count |-> 0, sid |-> 0, qCount |-> 0, lmeta |-> <<>>, arr |-> 0,
         todo |-> <<>>, attempt |-> 0, expLen |-> 0, why |-> "", path |-> "",
         err |-> FALSE]

\* A flush slot with no run in flight.  snapshot (the swapped-out dirty
\* set), nfail (failed gateway calls), failedAt (the step that threw), stored
\* (pairs put and read back), raised and ended describe the last run.
IdleFlush == [pc |-> "idle", chains |-> EmptyMap, snapshot |-> EmptyMap,
              nfail |-> 0, failedAt |-> "", stored |-> {}, raised |-> FALSE,
              ended |-> FALSE]
IdleEvo == [pc |-> "idle", outcome |-> "none", ret |-> 0,
            pre |-> [id |-> 0, fieldNames |-> <<>>], inp |-> <<>>,
            val |-> [id |-> 0, fields |-> <<>>], by |-> "call"]
IdleUpd == [pc |-> "idle", dir |-> [x |-> 0, y |-> 0], sid |-> 0, count |-> 0,
            oc |-> [x |-> 0, y |-> 0], tbl |-> <<>>]

\* The state the constructor and the _initBuckets it starts leave on a
\* gateway that was empty: schema id 1, empty caches, nuclei seeded by
\* pickNucleusByDirection, and either the bucket was unavailable (avail
\* FALSE, memory-only mode) or the schema, the nuclei and the zero template
\* of schema 1 were stored.  qc is the quadrantCount the client configured
\* (0: none).  InitState is the same with the grid size, the seeded nuclei,
\* the stored nuclei and templates and the position of _initBuckets given.
InitState(fields, qc, avail, w, h, nuc, stored, tmpl, ib) ==
  /\ schema = [id |-> 1, fieldNames |-> fields]
  /\ db = avail
  /\ dirtyIsMap \in BOOLEAN
  /\ disposed = FALSE
  /\ quadrantCount = qc
  /\ cells = [x |-> w, y |-> h]
  /\ nuclei = [z \in Layers |-> nuc]
  /\ dataTable = <<>>
  /\ heap = EmptyMap
  /\ layerCache = EmptyMap
  /\ dirtyLayers = EmptyMap
  /\ flushHandle = 0
  /\ timers = {}
  /\ maxField = [f \in FieldNames |-> 0]
  /\ gwSchema = IF avail THEN <<[id |-> 1, fields |-> fields]>> ELSE <<>>
  /\ gwNuc = stored
  /\ gwTmpl = tmpl
  /\ gwLayer = EmptyMap
  /\ gwLmeta = EmptyMap
  /\ ops = [t \in TaskIds |-> NoOp]
  /\ flushes = [f \in FlushIds |-> IdleFlush]
  /\ evo = IdleEvo
  /\ upd = IdleUpd
  /\ initb = ib
  /\ faults = 0
  /\ probe = <<>>
  /\ lastWrite = <<>>

\* The zero template _ensureZeroTemplate stores for schema 1.
FirstTemplate(qc) == [i \in {1} |-> IF qc = 0 THEN DEFAULT_QUADRANT_COUNT ELSE qc]

InitReady(fields, qc, avail) ==
  LET nuc == pickNucleusByDirection(GridCells, GridCells, DefaultDir)
  IN  InitState(fields, qc, avail, GridCells, GridCells, nuc,
                IF avail THEN [z \in Layers |-> nuc] ELSE EmptyMap,
                IF avail THEN FirstTemplate(qc) ELSE EmptyMap,
                [pc |-> IF avail THEN "done" ELSE "unavailable", z |-> 0])

\* A gateway call may fail transiently while the fault budget lasts.
MayFail == faults < MaxFaults


\* -------------------------------------------------------- evolveSchema
\* An evolveSchema that returns early only for a non-array argument.
EvolveIsNoopLax(inp, cur) == ~ inp.isArray

\* evolveSchema's early returns (SDFGridCore.js lines 137-138).
EvolveIsNoop(inp, cur) ==
  \/ ~ inp.isArray
  \/ Len(inp.names) = 0
  \/ arraysEqual(inp.names, cur.fieldNames)

\* The schema evolveSchema installs (line 139).
EvolvedSchema(inp, cur) == [id |-> cur.id + 1, fieldNames |-> inp.names]

\* The synchronous part of evolveSchema, up to its await of the meta put;
\* by names the caller: a direct call or the one updateGrid awaits.
EvolveSync(inp, by) ==
  IF EvolveIsNoop(inp, schema)
  THEN /\ evo' = [IdleEvo EXCEPT !.outcome = "noop", !.ret = schema.id,
                                 !.pre = schema, !.inp = inp.names, !.by = by]
       /\ UNCHANGED <<schema, lastWrite>>
  ELSE /\ schema.id < MaxSchemaId
       /\ schema' = EvolvedSchema(inp, schema)
       /\ lastWrite' = <<>>
       /\ evo' = IF db
                 THEN [IdleEvo EXCEPT !.pc = "put", !.outcome = "pending",
                         !.pre = schema, !.inp = inp.names, !.by = by,
                         !.val = [id |-> schema'.id, fields |-> schema'.fieldNames]]
                 ELSE [IdleEvo EXCEPT !.outcome = "applied", !.ret = schema'.id,
                         !.pre = schema, !.inp = inp.names, !.by = by]

evolveSchema(inp) ==
  /\ evo.pc = "idle"
  /\ EvolveSync(inp, "call")
  /\ UNCHANGED <<db, dirtyIsMap, disposed, quadrantCount, cells, nuclei, dataTable, heap,
                 layerCache, dirtyLayers, flushHandle, timers, maxField>>
  /\ UNCHANGED <<gwVars, ops, flushes, upd, initb, faults, probe>>

\* A rollback to the schema the call found.
SchemaRolledBack(cur) == evo.pre

\* The in-memory schema after the meta put of evolveSchema rejected: line 139
\* ran before the await and nothing undoes it.
SchemaAfterFailedPut(cur) == cur

\* The meta put of evolveSchema settles (line 140).  A rejection propagates
\* to the caller: an updateGrid awaiting it stops there.
EvolvePut(ok) ==
  /\ evo.pc = "put"
  /\ ok \/ MayFail
  /\ IF ok
     THEN /\ gwSchema' = <<evo.val>>
          /\ evo' = [evo EXCEPT !.pc = "idle", !.outcome = "applied", !.ret = schema.id]
          /\ UNCHANGED <<schema, faults>>
     ELSE /\ schema' = SchemaAfterFailedPut(schema)
          /\ evo' = [evo EXCEPT !.pc = "idle", !.outcome = "putFailed"]
          /\ faults' = faults + 1
          /\ UNCHANGED gwSchema
  /\ upd' = IF evo.by = "upd"
            THEN (IF ok THEN [upd EXCEPT !.pc = "reset"] ELSE IdleUpd)
            ELSE upd
  /\ UNCHANGED <<db, dirtyIsMap, disposed, quadrantCount, cells, nuclei, dataTable, heap,
                 layerCache, dirtyLayers, flushHandle, timers, maxField>>
  /\ UNCHANGED <<gwNuc, gwTmpl, gwLayer, gwLmeta, ops, flushes, initb, probe, lastWrite>>


\* ------------------------------------------------- buffers and the heap
ZeroArr(F) == [k \in 1..(DENSE_W * DENSE_H * F) |-> 0]

\* denseFromQuadrants(template, schema): createSparseQuadrants gives every
\* template variable the value 0, so painting the quadrants leaves zeros.
denseFromQuadrants(tmplCount, fields) == ZeroArr(Len(fields))

\* _applySparseIntoDense over the table entries from position k on; F and the
\* field names are those of this.schema when it runs.
RECURSIVE ApplySparseFrom(_, _, _, _)
ApplySparseFrom(arr, z, fields, k) ==
  IF k > Len(dataTable) THEN arr
  ELSE LET e == dataTable[k]
           F == Len(fields)
           pix == _mapCellToDense(z, e.x, e.y)
           base == _denseIdx(F, pix.bx, pix.by, 0)
           RECURSIVE Paint(_, _)
           Paint(a, fi) ==
             IF fi >= F THEN a
             ELSE LET name == fields[fi + 1]
                      v == IF name \in DOMAIN e.vals THEN e.vals[name] ELSE 0
                  IN  Paint(IF v # 0 THEN ArrSet(a, base + fi, v) ELSE a, fi + 1)
       IN  IF e.z # z \/ e.x < 0 \/ e.x >= cells.x \/ e.y < 0 \/ e.y >= cells.y
           THEN ApplySparseFrom(arr, z, fields, k + 1)
           ELSE ApplySparseFrom(Paint(arr, 0), z, fields, k + 1)

_applySparseIntoDense(z, arr) == ApplySparseFrom(arr, z, schema.fieldNames, 1)

\* Buffer ids the cache, the calls and the flush runs refer to.
Refs(cache, os, fl) ==
  {cache[z] : z \in DOMAIN cache}
  \cup {os[t].arr : t \in {u \in DOMAIN os : os[u].op # "idle"}}
  \cup UNION {{fl[f].chains[z].buf : z \in DOMAIN fl[f].chains} :
                f \in {g \in DOMAIN fl : fl[g].pc = "run"}}

\* The heap without the buffers nothing refers to any longer.
Collect(h, cache, os, fl) ==
  [b \in (DOMAIN h) \cap Refs(cache, os, fl) |-> h[b]]

FreeBufs == BufIds \ DOMAIN heap
NewBuf == CHOOSE b \in FreeBufs : \A c \in FreeBufs : b <= c

\* A new Float32Array with contents data, laid out for the field list fields.
Buffer(data, fields) == [data |-> data, fields |-> fields]

\* The indices of a set of quadrants in ascending order.
RECURSIVE SortedSeq(_)
SortedSeq(S) ==
  IF S = {} THEN <<>>
  ELSE LET m == CHOOSE a \in S : \A b \in S : a <= b
       IN  <<m>> \o SortedSeq(S \ {m})

\* -------------------------------------- write-then-read-back persistence
\* The record of a persisting call or flush chain after its idbPut of the
\* quadrant todo[1] succeeded (quad.byteLength is remembered for the read-back).
PersistAfterPut(r, quadLen) == [r EXCEPT !.pc = "get", !.expLen = 4 * quadLen]

\* A persistence that gives up on a quadrant whose put keeps failing and
\* goes on with the next one.
PersistAfterPutSkip(r) ==
  IF r.attempt >= QUADRANT_PERSIST_RETRIES
  THEN [r EXCEPT !.todo = Tail(r.todo), !.attempt = 1, !.why = "",
                 !.pc = IF Len(r.todo) = 1 THEN "meta" ELSE "put"]
  ELSE [r EXCEPT !.attempt = r.attempt + 1, !.why = "putFailed"]

\* ... after its idbPut failed: retried below the bound, thrown at it.
PersistAfterPutFail(r) ==
  IF r.attempt >= QUADRANT_PERSIST_RETRIES
  THEN [r EXCEPT !.pc = "throw"]
  ELSE [r EXCEPT !.attempt = r.attempt + 1, !.why = "putFailed"]

\* The read-back accepted the stored value: same byte length as the slice.
ReadBackMatches(r, stored) ==
  Len(stored) = 1 /\ 4 * Len(stored[1].data) = r.expLen

\* A read-back that accepts whatever is stored.
PersistAfterGetLax(r, stored) ==
  [r EXCEPT !.todo = Tail(r.todo), !.attempt = 1, !.why = "",
            !.pc = IF Len(r.todo) = 1 THEN "meta" ELSE "put"]

\* ... after the read-back idbGet returned stored (<<>> when absent).  why is
\* the reason of the retry under way, if any.
PersistAfterGet(r, stored) ==
  IF ReadBackMatches(r, stored)
  THEN [r EXCEPT !.todo = Tail(r.todo), !.attempt = 1, !.why = "",
                 !.pc = IF Len(r.todo) = 1 THEN "meta" ELSE "put"]
  ELSE IF r.attempt >= QUADRANT_PERSIST_RETRIES
       THEN [r EXCEPT !.pc = "throw"]
       ELSE [r EXCEPT !.attempt = r.attempt + 1, !.pc = "put", !.why = "mismatch"]

\* ... after the read-back idbGet itself failed: nothing catches it.
PersistAfterGetFail(r) == [r EXCEPT !.pc = "throw"]

StoredAt(z, qi) == IF <<z, qi>> \in DOMAIN gwLayer THEN <<gwLayer[<<z, qi>>]>> ELSE <<>>


\* --------------------------------------------------------- the write path
\* The buffer contents after the loop of setDenseFromCell / addDenseFromCell
\* over one (name, v) entry: F, the index and the pixel are those of the
\* schema, nucleus and grid size current when the call resumes.
WrittenData(op, z, x, y, name, v, data) ==
  LET F == Len(schema.fieldNames)
      pix == _mapCellToDense(z, x, y)
      base == _denseIdx(F, pix.bx, pix.by, 0)
      pos == IndexOf(schema.fieldNames, name)
  IN  IF pos = 0 THEN data
      ELSE IF op = "set" THEN ArrSet(data, base + pos - 1, v)
      ELSE ArrSet(data, base + pos - 1, OrZero(ArrGet(data, base + pos - 1)) + v)

\* The value the call stores (v, or the accumulated nxt).
StoredValue(op, z, x, y, name, v, data) ==
  LET F == Len(schema.fieldNames)
      pix == _mapCellToDense(z, x, y)
      base == _denseIdx(F, pix.bx, pix.by, 0)
      pos == IndexOf(schema.fieldNames, name)
  IN  IF op = "set" THEN v ELSE OrZero(ArrGet(data, base + pos - 1)) + v

\* _markDirty(ctx, z, bx, by) under quadrant count qc.
_markDirty(dirty, qc, z, bx, by) ==
  LET qi == _quadrantIndex(_ensureLayout(qc), bx, by)
      old == IF z \in DOMAIN dirty THEN dirty[z] ELSE {}
  IN  PutKey(dirty, z, old \cup {qi})

FreeTimers == TimerIds \ timers
NewTimer == CHOOSE i \in FreeTimers : \A j \in FreeTimers : i <= j

\* What a write does besides changing the buffer: the running maximum, the
\* dirty mark and the debounce timer (lines 279, 282-283 and 295, 298-299).
\* _markDirty calls get and set on this._dirtyLayers, which a Set lacks: on
\* the collection the constructor stores (SDFGridCore.js line 88) it throws
\* a TypeError after the buffer and the maximum were written, and the call
\* rejects (raised) without a dirty mark and without a timer.
WriteEffects(op, z, x, y, name, v, data, qc, dirty, handle, tms, sid) ==
  LET pix == _mapCellToDense(z, x, y)
      known == IndexOf(schema.fieldNames, name) # 0
      val == StoredValue(op, z, x, y, name, v, data)
  IN  /\ known => val <= MaxVal
      /\ probe' = <<>>
      /\ lastWrite' = <<[z |-> z, x |-> x, y |-> y, name |-> name, known |-> known,
                         expect |-> IF known THEN val ELSE 0, sid |-> sid,
                         raised |-> ~ dirtyIsMap,
                         tick |-> IF lastWrite = <<>> THEN 0
                                  ELSE 1 - lastWrite[1].tick]>>
      /\ maxField' = IF known THEN [maxField EXCEPT ![name] = Max2(@, val)]
                     ELSE maxField
      /\ IF ~ dirtyIsMap
         THEN \* ctx._dirtyLayers.get is not a function: the call rejects here
              /\ dirtyLayers' = dirty
              /\ flushHandle' = handle
              /\ timers' = tms
         ELSE /\ dirtyLayers' = _markDirty(dirty, qc, z, pix.bx, pix.by)
              /\ IF handle = 0
                 THEN /\ FreeTimers # {}
                      /\ flushHandle' = NewTimer
                      /\ timers' = tms \cup {NewTimer}
                 ELSE /\ flushHandle' = handle
                      /\ timers' = tms

\* setDenseFromCell / addDenseFromCell on a resident layer: the cache hit of
\* _ensureDenseLayer returns the cached buffer and the call goes on at once.
writeResident(op, z, c, name, v) ==
  /\ z \in DOMAIN layerCache
  /\ LET b == layerCache[z]
     IN  /\ heap' = [heap EXCEPT ![b].data =
                       WrittenData(op, z, c.x, c.y, name, v, heap[b].data)]
         /\ WriteEffects(op, z, c.x, c.y, name, v, heap[b].data, quadrantCount,
                         dirtyLayers, flushHandle, timers, schema.id)
  /\ UNCHANGED <<schema, db, dirtyIsMap, disposed, quadrantCount, cells, nuclei, dataTable,
                 layerCache>>
  /\ UNCHANGED <<gwVars, taskVars, faults>>

\* What an ensureDenseLayer call on a resident layer hands back: the contents
\* of the buffer, and a mark n that tells this return from the one before it.
Returned(z, data) ==
  <<[z |-> z, data |-> data,
     n |-> IF probe # <<>> /\ probe[1].n = 0 THEN 1 ELSE 0]>>

\* _ensureDenseLayer(z) on a resident layer (line 158): the cached buffer is
\* returned at once.
ensureHit(z) ==
  /\ z \in DOMAIN layerCache
  /\ probe' = Returned(z, heap[layerCache[z]].data)
  /\ UNCHANGED <<memVars, gwVars, taskVars, faults, lastWrite>>

\* sampleDenseForCell on a resident layer.
sampleDenseForCell(z, x, y, field) ==
  LET pos == IndexOf(schema.fieldNames, field)
      F == Len(schema.fieldNames)
      pix == _mapCellToDense(z, x, y)
  IN  IF pos = 0 THEN 0
      ELSE OrZero(ArrGet(heap[layerCache[z]].data,
                         _denseIdx(F, pix.bx, pix.by, pos - 1)))

\* ------------------------------------------- _ensureDenseLayer, cache miss
FirstIdle == CHOOSE t \in TaskIds :
               ops[t].op = "idle" /\ \A u \in TaskIds : ops[u].op = "idle" => t <= u

\* A call that misses the cache: _ensureDenseLayer(z) itself (op "ensure") or
\* the one setDenseFromCell / addDenseFromCell awaits.  It captures the
\* schema and enters _ensureZeroTemplate, which awaits idbGet when the
\* gateway is open.
ensureMiss(t, op, z, c, name, v) ==
  /\ z \notin DOMAIN layerCache
  /\ \E u \in TaskIds : ops[u].op = "idle"
  /\ t = FirstIdle
  /\ ops' = [ops EXCEPT ![t] =
       [NoOp EXCEPT !.op = op, !.z = z, !.x = c.x, !.y = c.y, !.name = name,
                    !.v = v, !.ts = schema, !.sid = schema.id,
                    !.count = IF quadrantCount = 0 THEN DEFAULT_QUADRANT_COUNT
                              ELSE quadrantCount,
                    !.pc = IF db THEN "tmplGet" ELSE "mem"]]
  /\ UNCHANGED <<memVars, gwVars, flushes, evo, upd, initb, faults, probe, lastWrite>>

\* The call rejects: nothing it built is cached.
Throw(t) ==
  /\ ops' = [ops EXCEPT ![t] = [NoOp EXCEPT !.err = TRUE]]
  /\ heap' = Collect(heap, layerCache, ops', flushes)
  /\ UNCHANGED <<layerCache, dirtyLayers, flushHandle, timers, maxField, lastWrite,
                 probe>>

\* this._layerCache.set(key, arr); return arr -- and, for a write, the rest
\* of setDenseFromCell / addDenseFromCell.  h is the heap holding r.arr.
Finish(t, r, h, qc) ==
  LET cache == PutKey(layerCache, r.z, r.arr)
  IN  /\ layerCache' = cache
      /\ ops' = [ops EXCEPT ![t] = NoOp]
      /\ IF r.op = "ensure"
         THEN /\ heap' = Collect(h, cache, ops', flushes)
              /\ UNCHANGED <<dirtyLayers, flushHandle, timers, maxField, lastWrite,
                             probe>>
         ELSE /\ heap' = Collect(
                   [h EXCEPT ![r.arr].data =
                      WrittenData(r.op, r.z, r.x, r.y, r.name, r.v, h[r.arr].data)],
                   cache, ops', flushes)
              /\ WriteEffects(r.op, r.z, r.x, r.y, r.name, r.v, h[r.arr].data, qc,
                              dirtyLayers, flushHandle, timers, r.sid)


\* What the steps of a call never touch.
OpFrame == UNCHANGED <<schema, db, dirtyIsMap, disposed, cells, nuclei, dataTable,
                       flushes, evo, upd, initb>>

\* The call goes on to its next await with record r.
Cont(t, r) ==
  /\ ops' = [ops EXCEPT ![t] = r]
  /\ UNCHANGED <<heap, layerCache, dirtyLayers, flushHandle, timers, maxField,
                 lastWrite, probe>>

\* A gateway call settles: resolved (ok) or rejected.
Settle(ok) ==
  /\ ok \/ MayFail
  /\ faults' = IF ok THEN faults ELSE faults + 1

\* A reassembly that projects the sparse table once the stored quadrants
\* are laid over arr.
RECURSIVE InsertThenSparse(_, _, _, _, _)
InsertThenSparse(arr, z, qi, qCount, F) ==
  IF qi >= qCount THEN _applySparseIntoDense(z, arr)
  ELSE InsertThenSparse(
         IF <<z, qi>> \in DOMAIN gwLayer
         THEN _insertQuadrant(arr, qi, gwLayer[<<z, qi>>].data, F,
                              _ensureLayout(quadrantCount))
         ELSE arr,
         z, qi + 1, qCount, F)

\* Lines 190-196: the stored quadrants present in the gateway laid over arr.
RECURSIVE InsertPresent(_, _, _, _, _)
InsertPresent(arr, z, qi, qCount, F) ==
  IF qi >= qCount THEN arr
  ELSE InsertPresent(
         IF <<z, qi>> \in DOMAIN gwLayer
         THEN _insertQuadrant(arr, qi, gwLayer[<<z, qi>>].data, F,
                              _ensureLayout(quadrantCount))
         ELSE arr,
         z, qi + 1, qCount, F)

\* A reindexing that copies nothing.
ReindexNothing(arr, z, qi, qCount, tsFields, curList) == arr

\* Lines 205-231: every stored quadrant copied pixel by pixel from the stored
\* field order curList into the order of the target schema.
RECURSIVE ReindexFrom(_, _, _, _, _, _)
ReindexFrom(arr, z, qi, qCount, tsFields, curList) ==
  IF qi >= qCount THEN arr
  ELSE IF <<z, qi>> \notin DOMAIN gwLayer
  THEN ReindexFrom(arr, z, qi + 1, qCount, tsFields, curList)
  ELSE
    LET quadOld == gwLayer[<<z, qi>>].data
        lay == _ensureLayout(quadrantCount)
        rc == QuadRect(lay, qi)
        qw == rc.xEnd - rc.xStart
        Fnew == Len(tsFields)
        Fold == Len(curList)
        Copied(k) ==
          LET p == (k - 1) \div Fnew
              fiNew == (k - 1) % Fnew
              x == p % DENSE_W
              y == p \div DENSE_W
              name == tsFields[fiNew + 1]
              fiOld == IndexOf(curList, name) - 1
              idx == (y - rc.yStart) * qw + (x - rc.xStart)
          IN  IF /\ x >= rc.xStart /\ x < rc.xEnd
                 /\ y >= rc.yStart /\ y < rc.yEnd
                 /\ IndexOf(tsFields, name) = fiNew + 1
                 /\ fiOld >= 0
              THEN ToF32(ArrGet(quadOld, idx * Fold + fiOld))
              ELSE arr[k]
    IN  ReindexFrom([k \in 1..Len(arr) |-> Copied(k)], z, qi + 1, qCount,
                    tsFields, curList)

\* Line 190: the stored metadata names the target schema.
SameSchema(lmeta, ts) ==
  LET curSid == IF Len(lmeta) = 1 THEN lmeta[1].sid ELSE 0
      curList == IF Len(lmeta) = 1 THEN lmeta[1].fields ELSE <<>>
  IN  curSid = ts.id /\ arraysEqual(curList, ts.fieldNames)

\* Lines 163-176: _ensureZeroTemplate returned tmpl without a gateway; the
\* quadrant count follows the template, and without a gateway the layer is
\* built in memory and cached.
OpMem(t) ==
  LET r == ops[t] IN
  /\ r.pc = "mem"
  /\ quadrantCount' = r.count
  /\ IF db
     THEN Cont(t, [r EXCEPT !.pc = "lmetaGet", !.qCount = r.count])
     ELSE /\ FreeBufs # {}
          /\ LET arr == _applySparseIntoDense(r.z,
                           denseFromQuadrants(r.count, r.ts.fieldNames))
                 b == NewBuf
             IN  Finish(t, [r EXCEPT !.arr = b, !.path = "memory"],
                        PutKey(heap, b, Buffer(arr, r.ts.fieldNames)), r.count)
  /\ UNCHANGED <<gwVars, faults>>
  /\ OpFrame

\* Line 111: idbGet of the template of the schema id seen at the call.
OpTmplGet(t, ok) ==
  LET r == ops[t] IN
  /\ r.pc = "tmplGet"
  /\ Settle(ok)
  /\ IF ~ ok THEN Throw(t) /\ UNCHANGED quadrantCount
     ELSE IF r.sid \in DOMAIN gwTmpl
     THEN /\ quadrantCount' = gwTmpl[r.sid]
          /\ Cont(t, [r EXCEPT !.pc = "lmetaGet", !.qCount = gwTmpl[r.sid]])
     ELSE /\ Cont(t, [r EXCEPT !.pc = "tmplPut"])
          /\ UNCHANGED quadrantCount
  /\ UNCHANGED gwVars
  /\ OpFrame

\* Line 114: idbPut of the new template, then lines 163-170.
OpTmplPut(t, ok) ==
  LET r == ops[t] IN
  /\ r.pc = "tmplPut"
  /\ Settle(ok)
  /\ IF ok
     THEN /\ gwTmpl' = PutKey(gwTmpl, r.sid, r.count)
          /\ quadrantCount' = r.count
          /\ Cont(t, [r EXCEPT !.pc = "lmetaGet", !.qCount = r.count])
     ELSE /\ Throw(t)
          /\ UNCHANGED <<gwTmpl, quadrantCount>>
  /\ UNCHANGED <<gwSchema, gwNuc, gwLayer, gwLmeta>>
  /\ OpFrame

\* Line 178: idbGet of the layer metadata.
OpLmetaGet(t, ok) ==
  LET r == ops[t] IN
  /\ r.pc = "lmetaGet"
  /\ Settle(ok)
  /\ IF ok
     THEN Cont(t, [r EXCEPT !.pc = "bufGet",
                     !.lmeta = IF r.z \in DOMAIN gwLmeta
                               THEN <<gwLmeta[r.z]>> ELSE <<>>])
     ELSE Throw(t)
  /\ UNCHANGED <<gwVars, quadrantCount>>
  /\ OpFrame


\* Lines 179-235 up to the first persistence await: the quadrant reads
\* settle, and the layer is assembled by one of the three paths.
OpBufGet(t, ok) ==
  LET r == ops[t]
      all == 0..(r.qCount - 1)
      missing == {qi \in all : <<r.z, qi>> \notin DOMAIN gwLayer}
      Fnew == Len(r.ts.fieldNames)
      zero == denseFromQuadrants(r.count, r.ts.fieldNames)
      curList == IF Len(r.lmeta) = 1 THEN r.lmeta[1].fields ELSE <<>>
      b == NewBuf
  IN
  /\ r.pc = "bufGet"
  /\ Settle(ok)
  /\ IF ~ ok THEN Throw(t)
     ELSE /\ FreeBufs # {}
          /\ IF missing = all
             THEN /\ heap' = PutKey(heap, b,
                               Buffer(_applySparseIntoDense(r.z, zero), r.ts.fieldNames))
                  /\ ops' = [ops EXCEPT ![t] =
                       [r EXCEPT !.arr = b, !.path = "fresh", !.pc = "put",
                                 !.attempt = 1, !.todo = SortedSeq(all)]]
                  /\ UNCHANGED <<layerCache, dirtyLayers, flushHandle, timers, maxField,
                                 lastWrite, probe>>
             ELSE IF SameSchema(r.lmeta, r.ts)
             THEN LET arr == InsertPresent(zero, r.z, 0, r.qCount, Fnew)
                      h == PutKey(heap, b, Buffer(arr, r.ts.fieldNames))
                  IN  IF missing = {}
                      THEN Finish(t, [r EXCEPT !.arr = b, !.path = "same"], h,
                                  quadrantCount)
                      ELSE /\ heap' = h
                           /\ ops' = [ops EXCEPT ![t] =
                                [r EXCEPT !.arr = b, !.path = "backfill", !.pc = "put",
                                          !.attempt = 1, !.todo = SortedSeq(missing)]]
                           /\ UNCHANGED <<layerCache, dirtyLayers, flushHandle,
                                          timers, maxField, lastWrite, probe>>
             ELSE /\ heap' = PutKey(heap, b,
                               Buffer(ReindexFrom(zero, r.z, 0, r.qCount,
                                                  r.ts.fieldNames, curList),
                                      r.ts.fieldNames))
                  /\ ops' = [ops EXCEPT ![t] =
                       [r EXCEPT !.arr = b, !.path = "reindex", !.pc = "put",
                                 !.attempt = 1, !.todo = SortedSeq(all)]]
                  /\ UNCHANGED <<layerCache, dirtyLayers, flushHandle, timers, maxField,
                                 lastWrite, probe>>
  /\ UNCHANGED <<gwVars, quadrantCount>>
  /\ OpFrame

\* The value idbPut stores for quadrant qi of buffer b sliced with F channels;
\* the layout is the one _ensureLayout(this) yields when the slice is taken.
QuadOf(b, qi, F) ==
  CHOOSE q \in { [data |-> _sliceQuadrant(heap[b].data, qi, F, lay),
                  fields |-> heap[b].fields] : lay \in {_ensureLayout(quadrantCount)} } : TRUE

\* Line 74 inside _persistAllQuadrants / _persistQuadrantSubset: the slice is
\* taken and put.
OpPut(t, ok) ==
  LET r == ops[t]
      qi == r.todo[1]
      quad == QuadOf(r.arr, qi, Len(r.ts.fieldNames))
      r2 == IF ok THEN PersistAfterPut(r, Len(quad.data)) ELSE PersistAfterPutFail(r)
  IN
  /\ r.pc = "put"
  /\ Settle(ok)
  /\ gwLayer' = IF ok THEN PutKey(gwLayer, <<r.z, qi>>, quad) ELSE gwLayer
  /\ IF r2.pc = "throw" THEN Throw(t) ELSE Cont(t, r2)
  /\ UNCHANGED <<gwSchema, gwNuc, gwTmpl, gwLmeta, quadrantCount>>
  /\ OpFrame

\* Lines 79-80: the read-back.
OpGet(t, ok) ==
  LET r == ops[t]
      r2 == IF ok THEN PersistAfterGet(r, StoredAt(r.z, r.todo[1]))
            ELSE PersistAfterGetFail(r)
  IN
  /\ r.pc = "get"
  /\ Settle(ok)
  /\ IF r2.pc = "throw" THEN Throw(t) ELSE Cont(t, r2)
  /\ UNCHANGED <<gwVars, quadrantCount>>
  /\ OpFrame

\* The idbPut of the layer metadata that ends each persisting path, then
\* this._layerCache.set(key, arr).
OpMeta(t, ok) ==
  LET r == ops[t] IN
  /\ r.pc = "meta"
  /\ Settle(ok)
  /\ IF ok
     THEN /\ gwLmeta' = PutKey(gwLmeta, r.z,
                               [sid |-> r.ts.id, fields |-> r.ts.fieldNames])
          /\ Finish(t, r, heap, quadrantCount)
     ELSE /\ Throw(t)
          /\ UNCHANGED gwLmeta
  /\ UNCHANGED <<gwSchema, gwNuc, gwTmpl, gwLayer, quadrantCount>>
  /\ OpFrame


\* ------------------------------------------------------ _flushDirtyLayers
NoChain == [pc |-> "done", buf |-> 0, F |-> 0, todo |-> <<>>, attempt |-> 0,
            expLen |-> 0, why |-> ""]

\* entries.map(async ([z,set]) => ...) up to its first await: the buffer, F
\* and the sorted indices are read when the flush starts.
ChainOf(z) ==
  IF z \in DOMAIN layerCache
  THEN [pc |-> "put", buf |-> layerCache[z], F |-> Len(schema.fieldNames),
        todo |-> SortedSeq(dirtyLayers[z]), attempt |-> 1, expLen |-> 0, why |-> ""]
  ELSE NoChain

\* _flushDirtyLayers() up to its first await (lines 311-316).
FlushStart(f, handle) ==
  IF disposed \/ ~ db \/ DOMAIN dirtyLayers = {}
  THEN /\ flushHandle' = 0
       /\ UNCHANGED <<flushes, dirtyLayers>>
  ELSE /\ flushes[f].pc = "idle"
       /\ flushes' = [flushes EXCEPT ![f] =
            [IdleFlush EXCEPT !.pc = "run", !.snapshot = dirtyLayers,
                              !.chains = [z \in DOMAIN dirtyLayers |-> ChainOf(z)]]]
       /\ dirtyLayers' = EmptyMap
       /\ flushHandle' = handle

\* The debounce timer fires and calls _flushDirtyLayers.
timerFire(tm, f) ==
  /\ tm \in timers
  /\ timers' = timers \ {tm}
  /\ FlushStart(f, flushHandle)
  /\ UNCHANGED <<schema, db, dirtyIsMap, disposed, quadrantCount, cells, nuclei, dataTable,
                 heap, layerCache, maxField>>
  /\ UNCHANGED <<gwVars, ops, evo, upd, initb, faults, probe, lastWrite>>

FlushFrame ==
  UNCHANGED <<schema, db, dirtyIsMap, disposed, quadrantCount, cells, nuclei, dataTable,
              layerCache, dirtyLayers, flushHandle, timers, maxField,
              ops, evo, upd, initb, probe, lastWrite>>

\* A flush whose failing chain also zeroes the resident buffers.
FlushContClobber(f, z, c, ok, storedPair) ==
  LET fl == flushes[f]
      c2 == IF c.pc = "throw" THEN [c EXCEPT !.pc = "failed"] ELSE c
  IN  /\ flushes' = [flushes EXCEPT ![f] =
           [fl EXCEPT !.chains = [fl.chains EXCEPT ![z] = c2],
                      !.nfail = IF ok THEN fl.nfail ELSE fl.nfail + 1,
                      !.stored = fl.stored \cup storedPair,
                      !.failedAt = IF c.pc = "throw" THEN fl.chains[z].pc
                                   ELSE fl.failedAt,
                      !.raised = fl.raised \/ c.pc = "throw"]]
      /\ heap' = IF c.pc = "throw"
                 THEN [b \in DOMAIN heap |->
                         [heap[b] EXCEPT !.data = [k \in 1..Len(heap[b].data) |-> 0]]]
                 ELSE heap

\* The chain of layer z goes on with record c; a chain that throws rejects
\* the flush.
FlushCont(f, z, c, ok, storedPair) ==
  LET fl == flushes[f]
      c2 == IF c.pc = "throw" THEN [c EXCEPT !.pc = "failed"] ELSE c
  IN  /\ flushes' = [flushes EXCEPT ![f] =
           [fl EXCEPT !.chains = [fl.chains EXCEPT ![z] = c2],
                      !.nfail = IF ok THEN fl.nfail ELSE fl.nfail + 1,
                      !.stored = fl.stored \cup storedPair,
                      !.failedAt = IF c.pc = "throw" THEN fl.chains[z].pc
                                   ELSE fl.failedAt,
                      !.raised = fl.raised \/ c.pc = "throw"]]
      /\ heap' = Collect(heap, layerCache, ops, flushes')

\* Line 323 -> 74: slice and put of the next dirty quadrant of layer z.
flushPut(f, z, ok) ==
  LET c == flushes[f].chains[z]
      qi == c.todo[1]
      quad == QuadOf(c.buf, qi, c.F)
  IN
  /\ flushes[f].pc = "run" /\ z \in DOMAIN flushes[f].chains
  /\ c.pc = "put"
  /\ Settle(ok)
  /\ gwLayer' = IF ok THEN PutKey(gwLayer, <<z, qi>>, quad) ELSE gwLayer
  /\ FlushCont(f, z, IF ok THEN PersistAfterPut(c, Len(quad.data))
                     ELSE PersistAfterPutFail(c), ok, {})
  /\ UNCHANGED <<gwSchema, gwNuc, gwTmpl, gwLmeta>>
  /\ FlushFrame

\* Lines 79-80 for the flush.
flushGet(f, z, ok) ==
  LET c == flushes[f].chains[z]
      stored == StoredAt(z, c.todo[1])
  IN
  /\ flushes[f].pc = "run" /\ z \in DOMAIN flushes[f].chains
  /\ c.pc = "get"
  /\ Settle(ok)
  /\ FlushCont(f, z, IF ok THEN PersistAfterGet(c, stored) ELSE PersistAfterGetFail(c),
               ok, IF ok /\ ReadBackMatches(c, stored) THEN {<<z, c.todo[1]>>} ELSE {})
  /\ UNCHANGED gwVars
  /\ FlushFrame

\* Line 325: the layer metadata is put with the schema current at that time.
flushMeta(f, z, ok) ==
  LET c == flushes[f].chains[z] IN
  /\ flushes[f].pc = "run" /\ z \in DOMAIN flushes[f].chains
  /\ c.pc = "meta"
  /\ Settle(ok)
  /\ gwLmeta' = IF ok THEN PutKey(gwLmeta, z, [sid |-> schema.id,
                                              fields |-> schema.fieldNames])
                ELSE gwLmeta
  /\ FlushCont(f, z, [c EXCEPT !.pc = IF ok THEN "done" ELSE "throw"], ok, {})
  /\ UNCHANGED <<gwSchema, gwNuc, gwTmpl, gwLayer>>
  /\ FlushFrame

\* A flush that clears the dirty set when it completes and not when it takes
\* its snapshot.
flushEndClearing(f) ==
  LET fl == flushes[f] IN
  /\ fl.pc = "run"
  /\ \A z \in DOMAIN fl.chains : fl.chains[z].pc \in {"done", "failed"}
  /\ flushes' = [flushes EXCEPT ![f] =
       [fl EXCEPT !.pc = "idle", !.chains = EmptyMap, !.ended = TRUE]]
  /\ flushHandle' = IF fl.raised THEN flushHandle ELSE 0
  /\ dirtyLayers' = EmptyMap
  /\ heap' = Collect(heap, layerCache, ops, flushes')
  /\ UNCHANGED <<schema, db, dirtyIsMap, disposed, quadrantCount, cells, nuclei, dataTable,
                 layerCache, timers, maxField>>
  /\ UNCHANGED <<gwVars, ops, evo, upd, initb, faults, probe, lastWrite>>

\* A flush that puts the pairs it could not store back into the dirty set
\* when it raises.
flushEndRequeue(f) ==
  LET fl == flushes[f]
      left(z) == { qi \in fl.snapshot[z] : <<z, qi>> \notin fl.stored }
      marks(z) == (IF z \in DOMAIN dirtyLayers THEN dirtyLayers[z] ELSE {}) \cup left(z)
      zs == DOMAIN dirtyLayers \cup { z \in DOMAIN fl.snapshot : left(z) # {} }
  IN
  /\ fl.pc = "run"
  /\ \A z \in DOMAIN fl.chains : fl.chains[z].pc \in {"done", "failed"}
  /\ flushes' = [flushes EXCEPT ![f] =
       [fl EXCEPT !.pc = "idle", !.chains = EmptyMap, !.ended = TRUE]]
  /\ flushHandle' = IF fl.raised THEN flushHandle ELSE 0
  /\ dirtyLayers' = IF fl.raised THEN [z \in zs |-> marks(z)] ELSE dirtyLayers
  /\ heap' = Collect(heap, layerCache, ops, flushes')
  /\ UNCHANGED <<schema, db, dirtyIsMap, disposed, quadrantCount, cells, nuclei, dataTable,
                 layerCache, timers, maxField>>
  /\ UNCHANGED <<gwVars, ops, evo, upd, initb, faults, probe, lastWrite>>

\* Promise.all settled and every chain came to rest: line 326 runs only when
\* no chain threw.
flushEnd(f) ==
  LET fl == flushes[f] IN
  /\ fl.pc = "run"
  /\ \A z \in DOMAIN fl.chains : fl.chains[z].pc \in {"done", "failed"}
  /\ flushes' = [flushes EXCEPT ![f] =
       [fl EXCEPT !.pc = "idle", !.chains = EmptyMap, !.ended = TRUE]]
  /\ flushHandle' = IF fl.raised THEN flushHandle ELSE 0
  /\ heap' = Collect(heap, layerCache, ops, flushes')
  /\ UNCHANGED <<schema, db, dirtyIsMap, disposed, quadrantCount, cells, nuclei, dataTable,
                 layerCache, dirtyLayers, timers, maxField>>
  /\ UNCHANGED <<gwVars, ops, evo, upd, initb, faults, probe, lastWrite>>


\* -------------------------------------------------------------- updateGrid
\* params of updateGrid: cellsX/cellsY (0: absent), fieldNames, propagationDir.
UpdateParams ==
  { [cells |-> c, fields |-> e, dir |-> DefaultDir] : c \in {0}, e \in EvolveInputs }

\* this.envVariables, the fields setCellData and getCellData default to zero.
EnvVariables == {"O2", "N2"}

\* The position of key "x,y,z" in the table, 0 when absent.
KeyIndex(tbl, x, y, z) ==
  IF \E k \in 1..Len(tbl) : tbl[k].x = x /\ tbl[k].y = y /\ tbl[k].z = z
  THEN CHOOSE k \in 1..Len(tbl) : tbl[k].x = x /\ tbl[k].y = y /\ tbl[k].z = z
  ELSE 0

\* Lines 339 and 344: the bounds test of getCellData and setCellData on a
\* grid of c cells.
InGrid(c, x, y, z) ==
  x >= 0 /\ x < c.x /\ y >= 0 /\ y < c.y /\ z \in Layers

\* The table without its entry k.
DropEntry(tbl, k) == SubSeq(tbl, 1, k - 1) \o SubSeq(tbl, k + 1, Len(tbl))

\* d.O2||0 of getCellData(x, y, z) (lines 338-342, 286).  An entry holds its
\* named properties in vals and, when applyBlobs stored a Float32Array, the
\* elements in arr.
GetCellO2(tbl, c, x, y, z) ==
  LET k == KeyIndex(tbl, x, y, z)
  IN  IF ~ InGrid(c, x, y, z) \/ k = 0 THEN 0
      ELSE IF "O2" \in DOMAIN tbl[k].vals THEN tbl[k].vals["O2"] ELSE 0

\* setCellData(x, y, z, values) on table tbl of a grid of c cells (lines
\* 343-356): {...cur, ...values}, deleted when every envVariable is zero.
SetCell(tbl, c, x, y, z, values) ==
  LET k == KeyIndex(tbl, x, y, z)
      cur == IF k > 0 THEN tbl[k]
             ELSE [x |-> x, y |-> y, z |-> z, vals |-> [n \in EnvVariables |-> 0],
                   arr |-> <<>>]
      merged == [n \in (DOMAIN cur.vals) \cup (DOMAIN values) |->
                   IF n \in DOMAIN values THEN values[n] ELSE cur.vals[n]]
      allZero == \A n \in EnvVariables : n \in DOMAIN merged => merged[n] = 0
  IN  IF ~ InGrid(c, x, y, z) THEN tbl
      ELSE IF allZero THEN (IF k > 0 THEN DropEntry(tbl, k) ELSE tbl)
      ELSE IF k > 0 THEN [tbl EXCEPT ![k] = [cur EXCEPT !.vals = merged]]
      ELSE Append(tbl, [cur EXCEPT !.vals = merged])

\* Lines 281-283 with unchanged extents and position: the cell of the new
\* grid of n cells that holds the centre of cell k of the old grid of o cells.
Reproject(k, o, n) == ((2 * k + 1) * n) \div (2 * o)

\* Lines 275-289: the carry-over of the snapshot old (line 240) from a grid of
\* oc cells into the table initializeGrid has just emptied (line 215), for a
\* grid of nc cells.  Line 286 reads the current value from the new table.
RECURSIVE CarryFrom(_, _, _, _, _)
CarryFrom(old, k, oc, nc, tbl) ==
  IF k > Len(old) THEN tbl
  ELSE LET xi == Reproject(old[k].x, oc.x, nc.x)
           yi == Reproject(old[k].y, oc.y, nc.y)
           zi == old[k].z
       IN  CarryFrom(old, k + 1, oc, nc,
             IF InGrid(nc, xi, yi, zi)
             THEN SetCell(tbl, nc, xi, yi, zi, [n \in {"O2"} |-> GetCellO2(tbl, nc, xi, yi, zi)])
             ELSE tbl)

CarriedTable(old, oc, nc) == CarryFrom(old, 1, oc, nc, <<>>)

\* What the sparse-table calls leave alone: the dense engine and the gateway.
SparseFrame ==
  /\ UNCHANGED <<schema, db, dirtyIsMap, disposed, quadrantCount, cells, nuclei, heap,
                 layerCache, dirtyLayers, flushHandle, timers, maxField>>
  /\ UNCHANGED <<gwVars, taskVars, faults, probe, lastWrite>>

\* setCellData(x, y, z, values) (SDFGridCore.js 343-356).
setCellData(x, y, z, values) ==
  /\ dataTable' = SetCell(dataTable, cells, x, y, z, values)
  /\ SparseFrame

\* Lines 76-82 of applyBlobs: the Float32Array built from a cell's data, an
\* array copied by position or an object copied through schema.index.
BlobArr(cell, fields) ==
  [i \in 1..Len(fields) |->
     IF cell.isArr
     THEN (IF i <= Len(cell.a) THEN cell.a[i] ELSE 0)
     ELSE (IF fields[i] \in DOMAIN cell.o THEN cell.o[fields[i]] ELSE 0)]

\* Lines 64-88 of applyBlobs over the cells from position k on: a cell inside
\* the grid that has data is stored under its key as the array.
RECURSIVE ApplyCells(_, _, _)
ApplyCells(data, k, tbl) ==
  IF k > Len(data) THEN tbl
  ELSE LET cell == data[k]
           i == KeyIndex(tbl, cell.x, cell.y, cell.z)
           e == [x |-> cell.x, y |-> cell.y, z |-> cell.z, vals |-> EmptyMap,
                 arr |-> BlobArr(cell, schema.fieldNames)]
       IN  ApplyCells(data, k + 1,
             IF InGrid(cells, cell.x, cell.y, cell.z) /\ cell.has
             THEN (IF i > 0 THEN [tbl EXCEPT ![i] = e] ELSE Append(tbl, e))
             ELSE tbl)

\* applyBlobs(blobs) (SDFGridPersistence.js 51-92): nothing of the table
\* changes for a missing blob or another layout; otherwise the table is
\* replaced by the blob's cells.
applyBlobs(blobs) ==
  /\ dataTable' = IF blobs.null \/ blobs.layout # cells THEN dataTable
                  ELSE ApplyCells(blobs.data, 1, <<>>)
  /\ SparseFrame

\* updateDispersion (SDFGridCore.js 358-374) over the entries from position k
\* on, once the throttle of lines 359-361 lets it run: an entry with a truthy
\* O2 decays and is deleted below 0.01.  halve is decayRate = ln 2, otherwise
\* decayRate is large enough that every value of the table decays below 0.01.
RECURSIVE DecayFrom(_, _, _)
DecayFrom(tbl, k, halve) ==
  IF k > Len(tbl) THEN tbl
  ELSE LET d == tbl[k]
           o2 == IF "O2" \in DOMAIN d.vals THEN d.vals["O2"] ELSE 0
       IN  IF o2 = 0 THEN DecayFrom(tbl, k + 1, halve)
           ELSE IF halve
                THEN DecayFrom([tbl EXCEPT ![k].vals["O2"] = o2 \div 2], k + 1, halve)
                ELSE DecayFrom(DropEntry(tbl, k), k, halve)

\* The values are whole numbers: decayRate = ln 2 is drawn only when every O2
\* of the table is even.
updateDispersion(halve) ==
  /\ halve => \A k \in 1..Len(dataTable) :
                "O2" \in DOMAIN dataTable[k].vals => dataTable[k].vals["O2"] % 2 = 0
  /\ dataTable' = DecayFrom(dataTable, 1, halve)
  /\ SparseFrame

\* Lines 260-289: nuclei reseeded for the grid size c and the direction dir,
\* caches reset, the table rebuilt from the snapshot old taken on a grid of
\* oc cells; then the first put of line 293.
ResetEffects(c, dir, oc, old) ==
  /\ nuclei' = [z \in Layers |-> pickNucleusByDirection(c.x, c.y, dir)]
  /\ layerCache' = EmptyMap
  /\ dirtyLayers' = EmptyMap
  /\ flushHandle' = 0
  /\ timers' = timers \ {flushHandle}
  /\ dataTable' = CarriedTable(old, oc, c)
  /\ heap' = Collect(heap, layerCache', ops, flushes)
  /\ upd' = IF db THEN [IdleUpd EXCEPT !.pc = "layoutPut", !.dir = dir] ELSE IdleUpd
  /\ lastWrite' = <<>>

\* Lines 240-258: the state is updated and, with fieldNames, the schema
\* evolved, which updateGrid awaits; without fieldNames the call runs on to
\* line 293 with no await.
updateGrid(p) ==
  /\ upd.pc = "idle"
  /\ evo.pc = "idle"
  /\ cells' = IF p.cells = 0 THEN cells ELSE [x |-> p.cells, y |-> p.cells]
  /\ IF p.fields.isArray /\ Len(p.fields.names) > 0
     THEN /\ EvolveSync(p.fields, "upd")
          /\ upd' = [IdleUpd EXCEPT !.pc = IF evo'.pc = "put" THEN "evolve" ELSE "reset",
                                    !.dir = p.dir, !.oc = cells, !.tbl = dataTable]
          /\ UNCHANGED <<nuclei, dataTable, heap, layerCache, dirtyLayers,
                         flushHandle, timers>>
     ELSE /\ ResetEffects(cells', p.dir, cells, dataTable)
          /\ UNCHANGED <<schema, evo>>
  /\ UNCHANGED <<db, dirtyIsMap, disposed, quadrantCount, maxField>>
  /\ UNCHANGED <<gwVars, ops, flushes, initb, faults, probe>>

\* The await of evolveSchema is over: lines 260-289.
UpdReset ==
  /\ upd.pc = "reset"
  /\ ResetEffects(cells, upd.dir, upd.oc, upd.tbl)
  /\ UNCHANGED <<schema, db, dirtyIsMap, disposed, quadrantCount, cells, maxField>>
  /\ UNCHANGED <<gwVars, ops, flushes, evo, initb, faults, probe>>

UpdFrame ==
  UNCHANGED <<memVars, ops, flushes, evo, initb, probe, lastWrite>>

UpdNext(ok, pc) == upd' = IF ok THEN [upd EXCEPT !.pc = pc] ELSE IdleUpd

\* Line 293: the layout record is put (nothing reads it back).
UpdLayoutPut(ok) ==
  /\ upd.pc = "layoutPut"
  /\ Settle(ok)
  /\ UpdNext(ok, "schemaPut")
  /\ UNCHANGED gwVars
  /\ UpdFrame

\* Line 299.
UpdSchemaPut(ok) ==
  /\ upd.pc = "schemaPut"
  /\ Settle(ok)
  /\ gwSchema' = IF ok THEN <<[id |-> schema.id, fields |-> schema.fieldNames]>>
                 ELSE gwSchema
  /\ UpdNext(ok, "nucPut")
  /\ UNCHANGED <<gwNuc, gwTmpl, gwLayer, gwLmeta>>
  /\ UpdFrame

\* Lines 300-304: one put per layer (Layers holds one), then the call of
\* _ensureZeroTemplate, which reads the count and the schema id.
UpdNucPut(ok) ==
  /\ upd.pc = "nucPut"
  /\ Settle(ok)
  /\ gwNuc' = IF ok THEN [z \in Layers |-> NucleusEntry(z)] ELSE gwNuc
  /\ upd' = IF ok
            THEN [upd EXCEPT !.pc = "tmplGet", !.sid = schema.id,
                    !.count = IF quadrantCount = 0 THEN DEFAULT_QUADRANT_COUNT
                              ELSE quadrantCount]
            ELSE IdleUpd
  /\ UNCHANGED <<gwSchema, gwTmpl, gwLayer, gwLmeta>>
  /\ UpdFrame

\* Lines 111-114 for updateGrid.
UpdTmplGet(ok) ==
  /\ upd.pc = "tmplGet"
  /\ Settle(ok)
  /\ upd' = IF ok /\ upd.sid \notin DOMAIN gwTmpl
            THEN [upd EXCEPT !.pc = "tmplPut"]
            ELSE IdleUpd
  /\ UNCHANGED gwVars
  /\ UpdFrame

UpdTmplPut(ok) ==
  /\ upd.pc = "tmplPut"
  /\ Settle(ok)
  /\ gwTmpl' = IF ok THEN PutKey(gwTmpl, upd.sid, upd.count) ELSE gwTmpl
  /\ upd' = IdleUpd
  /\ UNCHANGED <<gwSchema, gwNuc, gwLayer, gwLmeta>>
  /\ UpdFrame

\* ----------------------------------------------------------------- dispose
dispose ==
  /\ ~ disposed
  /\ disposed' = TRUE
  /\ flushHandle' = 0
  /\ timers' = timers \ {flushHandle}
  /\ layerCache' = EmptyMap
  /\ dirtyLayers' = EmptyMap
  /\ heap' = Collect(heap, layerCache', ops, flushes)
  /\ lastWrite' = <<>>
  /\ UNCHANGED <<schema, db, dirtyIsMap, quadrantCount, cells, nuclei, dataTable, maxField>>
  /\ UNCHANGED <<gwVars, taskVars, faults, probe>>


\* ------------------------------------------------------- specifications
WriteOps == {"set", "add"}
WriteVals == 1..MaxVal

\* The calls of a client: writes on a resident layer, and ensure / set / add
\* calls that miss the cache.
Calls(tasks, cs, names, vals) ==
  \/ \E op \in WriteOps, z \in Layers, c \in cs, name \in names,
        v \in vals : writeResident(op, z, c, name, v)
  \/ \E t \in tasks, z \in Layers :
        ensureMiss(t, "ensure", z, [x |-> 0, y |-> 0], "", 0)
  \/ \E t \in tasks, op \in WriteOps, z \in Layers, c \in cs,
        name \in names, v \in vals : ensureMiss(t, op, z, c, name, v)

\* The whole program: every call and every step, with and without a gateway.
Init ==
  \E fields \in InitialFields, qc \in {0, 2, 4}, avail \in BOOLEAN :
     InitReady(fields, qc, avail)

Next ==
  \/ Calls(TaskIds, WriteCells, WriteNames, WriteVals)
  \/ \E inp \in EvolveInputs : evolveSchema(inp)
  \/ \E ok \in BOOLEAN : EvolvePut(ok)
  \/ \E t \in TaskIds : OpMem(t)
  \/ \E t \in TaskIds, ok \in BOOLEAN :
        \/ OpTmplGet(t, ok) \/ OpTmplPut(t, ok) \/ OpLmetaGet(t, ok)
        \/ OpBufGet(t, ok) \/ OpPut(t, ok) \/ OpGet(t, ok) \/ OpMeta(t, ok)
  \/ \E tm \in TimerIds, f \in FlushIds : timerFire(tm, f)
  \/ \E f \in FlushIds, z \in Layers, ok \in BOOLEAN :
        flushPut(f, z, ok) \/ flushGet(f, z, ok) \/ flushMeta(f, z, ok)
  \/ \E f \in FlushIds : flushEnd(f)
  \/ \E p \in UpdateParams : updateGrid(p)
  \/ UpdReset
  \/ \E ok \in BOOLEAN :
        \/ UpdLayoutPut(ok) \/ UpdSchemaPut(ok) \/ UpdNucPut(ok)
        \/ UpdTmplGet(ok) \/ UpdTmplPut(ok)
  \/ dispose

Spec == Init /\ [][Next]_vars

\* Schema registry: evolveSchema against an open gateway.
InitSchema ==
  \E e \in {i \in EvolveInputs : i.isArray /\ Len(i.names) > 0} :
     InitReady(e.names, 0, TRUE) /\ ~ dirtyIsMap

NextSchema ==
  \/ \E inp \in EvolveInputs : evolveSchema(inp)
  \/ \E ok \in BOOLEAN : EvolvePut(ok)

SpecSchema == InitSchema /\ [][NextSchema]_vars


\* C8: whenever evolveSchema is called with a non-empty field sequence that
\* differs from the current one in content or in order, the schema id after
\* the call is strictly greater than the id before it (evo.pre is the
\* schema the call found, evo.inp its argument).
C8_ReorderGetsNewId ==
  (evo.outcome # "none" /\ Len(evo.inp) > 0 /\ evo.inp # evo.pre.fieldNames)
    => schema.id > evo.pre.id

\* A call evolved the schema into a reordering of the same field set.
C8_Witness ==
  /\ evo.outcome = "applied"
  /\ evo.inp # evo.pre.fieldNames
  /\ {evo.inp[i] : i \in 1..Len(evo.inp)}
       = {evo.pre.fieldNames[i] : i \in 1..Len(evo.pre.fieldNames)}
  /\ schema.fieldNames = evo.inp
  /\ schema.id = evo.pre.id + 1

\* C9: an evolveSchema call whose argument is absent, not an array, empty or
\* order-sensitively equal to the current field sequence returns the current
\* schema id, leaves the in-memory schema and the persisted schema record
\* unchanged and issues no gateway write.
C9_NoopLeavesSchema ==
  [][ (evo.pc = "idle" /\ (Len(evo'.inp) = 0 \/ evo'.inp = schema.fieldNames))
        => /\ schema' = schema
           /\ gwSchema' = gwSchema
           /\ evo'.pc = "idle"
           /\ evo'.ret = schema.id ]_vars

\* A call with the current sequence returned the id of an evolved schema.
C9_Witness ==
  /\ evo.outcome = "noop"
  /\ evo.inp = schema.fieldNames
  /\ evo.ret = schema.id
  /\ schema.id > 1
  /\ gwSchema = <<[id |-> schema.id, fields |-> schema.fieldNames]>>

\* C10: if the gateway put issued by evolveSchema fails, the in-memory schema
\* is not rolled back: its id is the old id + 1 and its fieldNames are the
\* new sequence.
C10_NoRollback ==
  evo.outcome = "putFailed"
    => schema.id = evo.pre.id + 1 /\ schema.fieldNames = evo.inp

\* The put of an evolveSchema failed while the gateway still holds the
\* record of the schema before it.
C10_Witness ==
  /\ evo.outcome = "putFailed"
  /\ schema.id = evo.pre.id + 1
  /\ gwSchema # <<[id |-> schema.id, fields |-> schema.fieldNames]>>

\* ---------------------------------------------------------------- layout
\* Quadrant counts a client may configure: every Q in [1, W*H].
QuadrantCounts == 1..(DENSE_W * DENSE_H)
Pixels == (0..(DENSE_W - 1)) \X (0..(DENSE_H - 1))

InitLayout ==
  \E q \in QuadrantCounts, fields \in InitialFields :
     InitReady(fields, q, FALSE) /\ ~ dirtyIsMap

\* _quadrantIndex for one dense pixel, as _markDirty calls it.
LayoutProbe(bx, by) ==
  /\ probe' = <<[bx |-> bx, by |-> by,
                 qi |-> _quadrantIndex(_ensureLayout(quadrantCount), bx, by)]>>
  /\ UNCHANGED <<memVars, gwVars, taskVars, faults, lastWrite>>

NextLayout == \E px \in Pixels : LayoutProbe(px[1], px[2])

SpecLayout == InitLayout /\ [][NextLayout]_vars

InRect(rc, x, y) ==
  x >= rc.xStart /\ x < rc.xEnd /\ y >= rc.yStart /\ y < rc.yEnd

\* C7: for every quadrant count Q in [1, W*H] the rectangles of quadrants
\* 0..Q-1 have non-negative width and height, are pairwise disjoint and
\* cover the canvas: every pixel lies in exactly one quadrant whose index is
\* below Q, and that is the index _quadrantIndex gives it.
C7_ExactPartition ==
  LET lay == _ensureLayout(quadrantCount)
      Q == lay.count
  IN  /\ \A qi \in 0..(Q - 1) :
           LET rc == QuadRect(lay, qi)
           IN  rc.xEnd >= rc.xStart /\ rc.yEnd >= rc.yStart
      /\ \A px \in Pixels :
           \E qi \in 0..(Q - 1) :
              /\ InRect(QuadRect(lay, qi), px[1], px[2])
              /\ \A qj \in 0..(Q - 1) :
                   InRect(QuadRect(lay, qj), px[1], px[2]) => qj = qi
      /\ \A k \in 1..Len(probe) :
           /\ probe[k].qi < Q
           /\ InRect(QuadRect(lay, probe[k].qi), probe[k].bx, probe[k].by)


\* ------------------------------------------------------ memory-only mode
InitMemory == \E fields \in InitialFields : InitReady(fields, 4, FALSE)

NextMemory ==
  \/ Calls({1}, {[x |-> 2, y |-> 2]}, WriteNames, WriteVals)
  \/ \E t \in TaskIds : OpMem(t)
  \/ \E inp \in EvolveInputs : evolveSchema(inp)
  \/ \E tm \in TimerIds, f \in FlushIds : timerFire(tm, f)

SpecMemory == InitMemory /\ [][NextMemory]_vars


\* C1: every buffer _ensureDenseLayer returns -- on a cache hit the resident
\* buffer of the layer -- has length W*H*F for the field count F of the
\* current schema and holds the fields of the current schema channel by
\* channel, also after an evolveSchema issued while the layer is resident.
C1_ResidentMatchesSchema ==
  \A z \in DOMAIN layerCache :
     /\ Len(heap[layerCache[z]].data)
          = DENSE_W * DENSE_H * Len(schema.fieldNames)
     /\ heap[layerCache[z]].fields = schema.fieldNames

\* What sampleDenseForCell reads at the place of the last write, and what
\* the reference fold expects there.
SampleLast ==
  sampleDenseForCell(lastWrite[1].z, lastWrite[1].x, lastWrite[1].y,
                     lastWrite[1].name)
ExpectLast == lastWrite[1].expect

\* C3: a setDenseFromCell / addDenseFromCell of a field of the current
\* schema, whose call saw no schema change, is read back at once by
\* sampleDenseForCell: a set reads its value, an add reads the value read
\* before it plus its increment.
C3_ReadAfterWrite ==
  [][ (lastWrite' # <<>> /\ lastWrite' # lastWrite /\ lastWrite'[1].known
         /\ lastWrite'[1].sid = schema'.id)
        => SampleLast' = ExpectLast' ]_vars

\* No call is suspended at a gateway call and no store holds a record.
NoGatewayUse ==
  /\ \A t \in TaskIds : ops[t].pc \in {"idle", "mem"}
  /\ \A f \in FlushIds : flushes[f].pc = "idle"
  /\ evo.pc = "idle"
  /\ gwSchema = <<>> /\ DOMAIN gwNuc = {} /\ DOMAIN gwTmpl = {}
  /\ DOMAIN gwLayer = {} /\ DOMAIN gwLmeta = {}

\* C11: while _db is null, ensureDenseLayer, setDenseFromCell,
\* addDenseFromCell and _flushDirtyLayers complete without raising and
\* without a gateway get or put: no call rejects, no call waits for the
\* gateway and the stores stay as they were.
C11_MemoryOnlyNoRaise ==
  ~ db => /\ NoGatewayUse
          /\ \A t \in TaskIds : ~ ops[t].err
          /\ \A f \in FlushIds : ~ flushes[f].raised
          /\ lastWrite # <<>> => ~ lastWrite[1].raised


\* --------------------------------------------- flush under gateway faults
\* One call in flight, one cell, a fixed schema; the gateway may fail in the
\* persistence steps of a materialization and of a flush.
InitFlush == \E fields \in InitialFields : InitReady(fields, 4, TRUE)

NextFlush ==
  \/ Calls({1}, WriteCells, {"O2"}, WriteVals)
  \/ \E t \in TaskIds : OpTmplGet(t, TRUE)
  \/ \E t \in TaskIds : OpLmetaGet(t, TRUE)
  \/ \E t \in TaskIds : OpBufGet(t, TRUE)
  \/ \E t \in TaskIds, ok \in BOOLEAN : OpPut(t, ok)
  \/ \E t \in TaskIds, ok \in BOOLEAN : OpGet(t, ok)
  \/ \E t \in TaskIds, ok \in BOOLEAN : OpMeta(t, ok)
  \/ \E tm \in TimerIds, f \in FlushIds : timerFire(tm, f)
  \/ \E f \in FlushIds, z \in Layers, ok \in BOOLEAN : flushPut(f, z, ok)
  \/ \E f \in FlushIds, z \in Layers, ok \in BOOLEAN : flushGet(f, z, ok)
  \/ \E f \in FlushIds, z \in Layers, ok \in BOOLEAN : flushMeta(f, z, ok)
  \/ \E f \in FlushIds : flushEnd(f)

SpecFlush == InitFlush /\ [][NextFlush]_vars


C4_PutRetried ==
  \E f \in FlushIds :
     /\ flushes[f].pc = "idle" /\ flushes[f].ended /\ flushes[f].nfail = 1
     /\ ~ flushes[f].raised

\* The resident buffers are the same objects with the same contents.
ResidentUntouched ==
  /\ layerCache' = layerCache
  /\ \A z \in DOMAIN layerCache :
       /\ layerCache[z] \in DOMAIN heap'
       /\ heap'[layerCache[z]] = heap[layerCache[z]]

\* A flush run starts to raise, or a materialization throws out of its
\* persistence steps.
PersistenceFails ==
  \/ \E f \in FlushIds : flushes'[f].raised /\ ~ flushes[f].raised
  \/ \E t \in TaskIds :
        ops[t].pc \in {"put", "get", "meta"} /\ ops'[t].err /\ ops'[t].op = "idle"

\* C6: when a flush or the persistence of a materialization ends in a
\* terminal failure, the cached layer buffers are not modified by it, and
\* sampleDenseForCell still returns the value written last once a flush has
\* raised.
C6_MemoryStaysCorrect ==
  /\ [][ PersistenceFails => ResidentUntouched ]_vars
  /\ [](\A f \in FlushIds :
          (flushes[f].raised /\ lastWrite # <<>> /\ lastWrite[1].known)
            => SampleLast = ExpectLast)

\* A flush raised while the layer holds a written value that is not stored.
C6_Witness ==
  \E f \in FlushIds :
     /\ flushes[f].pc = "idle" /\ flushes[f].raised
     /\ lastWrite # <<>> /\ lastWrite[1].known
     /\ lastWrite[1].z \in DOMAIN layerCache
     /\ SampleLast = ExpectLast /\ ExpectLast > 0
     /\ \E qi \in flushes[f].snapshot[lastWrite[1].z] :
          <<lastWrite[1].z, qi>> \notin flushes[f].stored


\* ------------------------------------ write-then-read-back under contention
\* Two materializations of one layer overlap an evolveSchema, so that both
\* persist the same quadrants with slices of different byte lengths; puts
\* and read-backs may fail.
InitVerify ==
  \E fields \in InitialFields : InitReady(fields, 2, TRUE) /\ ~ dirtyIsMap

NextVerify ==
  \/ \E t \in TaskIds, z \in Layers :
        ensureMiss(t, "ensure", z, [x |-> 0, y |-> 0], "", 0)
  \/ evolveSchema([isArray |-> TRUE, names |-> <<"O2", "N2">>])
  \/ EvolvePut(TRUE)
  \/ \E t \in TaskIds : OpTmplGet(t, TRUE)
  \/ \E t \in TaskIds : OpTmplPut(t, TRUE)
  \/ \E t \in TaskIds : OpLmetaGet(t, TRUE)
  \/ \E t \in TaskIds : OpBufGet(t, TRUE)
  \/ \E t \in TaskIds, ok \in BOOLEAN : OpPut(t, ok)
  \/ \E t \in TaskIds, ok \in BOOLEAN : OpGet(t, ok)
  \/ \E t \in TaskIds : OpMeta(t, TRUE)

SpecVerify == InitVerify /\ [][NextVerify]_vars


\* The call in slot t takes a step of its persistence loop.
PersistStep(t) == ops[t].pc \in {"put", "get"} /\ ops'[t] # ops[t]

\* The read-back of the call in slot t finds the byte length it expects.
ReadBackOk(t) == ReadBackMatches(ops[t], StoredAt(ops[t].z, ops[t].todo[1]))

\* An attempt of the call in slot t ends without a verified write: its put
\* failed, or its read-back was absent or of another byte length.
AttemptFails(t) ==
  /\ PersistStep(t)
  /\ \/ ops[t].pc = "put" /\ faults' = faults + 1
     \/ ops[t].pc = "get" /\ faults' = faults /\ ~ ReadBackOk(t)

\* The persistence of the current quadrant returns normally.
QuadrantDone(t) ==
  /\ PersistStep(t)
  /\ ops'[t].op # "idle"
  /\ ops'[t].todo # ops[t].todo \/ ops'[t].pc = "meta"

\* C5: persisting one quadrant makes at most 3 write attempts; an attempt
\* whose put fails or whose read-back byte length differs from the expected
\* one is followed by another attempt for the same quadrant or, once the
\* bound of 3 is reached, by a raised error; and the operation returns
\* normally only on a read-back of exactly the expected byte length.
C5_VerifiedOrRaised ==
  /\ [](\A t \in TaskIds :
          ops[t].pc \in {"put", "get"}
            => ops[t].attempt \in 1..QUADRANT_PERSIST_RETRIES)
  /\ [][ \A t \in TaskIds :
           /\ AttemptFails(t) =>
                IF ops[t].attempt < QUADRANT_PERSIST_RETRIES
                THEN /\ ops'[t].pc = "put"
                     /\ ops'[t].attempt = ops[t].attempt + 1
                     /\ ops'[t].todo = ops[t].todo
                ELSE ops'[t].op = "idle" /\ ops'[t].err
           /\ QuadrantDone(t) =>
                ops[t].pc = "get" /\ faults' = faults /\ ReadBackOk(t) ]_vars

\* A call is at its third attempt for a quadrant after a read-back found a
\* slice of another byte length under its key.
C5_Witness ==
  \E t \in TaskIds :
     /\ ops[t].pc = "put"
     /\ ops[t].attempt = QUADRANT_PERSIST_RETRIES
     /\ ops[t].why = "mismatch"


\* ------------------------------------------- reindexing after a schema change
\* Writes, flushes and updateGrid calls that evolve the schema and reset the
\* caches, so that a layer stored under one schema is materialized again
\* under another.  The client follows the order the property is about:
\* it calls updateGrid once every write is flushed and no call is in flight,
\* and reads and writes again once updateGrid has returned; the gateway does
\* not fail.
Flushed ==
  /\ \A t \in TaskIds : ops[t].op = "idle"
  /\ \A f \in FlushIds : flushes[f].pc = "idle"
  /\ timers = {}
  /\ DOMAIN dirtyLayers = {}

InitReindex == \E fields \in InitialFields : InitReady(fields, 2, TRUE)

\* updateGrid calls that reorder, extend and shrink the field list.
ReindexParams ==
  { [cells |-> 0, fields |-> [isArray |-> TRUE, names |-> n], dir |-> DefaultDir] :
      n \in { <<"N2", "O2">>, <<"O2", "N2">>, <<"O2">> } }

NextReindex ==
  \/ upd.pc = "idle" /\ Calls({1}, {[x |-> 2, y |-> 2]}, WriteNames, {1})
  \/ \E t \in TaskIds : OpTmplGet(t, TRUE)
  \/ \E t \in TaskIds : OpLmetaGet(t, TRUE)
  \/ \E t \in TaskIds : OpBufGet(t, TRUE)
  \/ \E t \in TaskIds : OpPut(t, TRUE)
  \/ \E t \in TaskIds : OpGet(t, TRUE)
  \/ \E t \in TaskIds : OpMeta(t, TRUE)
  \/ \E tm \in TimerIds, f \in FlushIds : timerFire(tm, f)
  \/ \E f \in FlushIds, z \in Layers : flushPut(f, z, TRUE)
  \/ \E f \in FlushIds, z \in Layers : flushGet(f, z, TRUE)
  \/ \E f \in FlushIds, z \in Layers : flushMeta(f, z, TRUE)
  \/ \E f \in FlushIds : flushEnd(f)
  \/ Flushed /\ \E p \in ReindexParams : updateGrid(p)
  \/ EvolvePut(TRUE)
  \/ UpdReset
  \/ UpdLayoutPut(TRUE)
  \/ UpdSchemaPut(TRUE)
  \/ UpdNucPut(TRUE)
  \/ UpdTmplGet(TRUE)
  \/ UpdTmplPut(TRUE)

SpecReindex == InitReindex /\ [][NextReindex]_vars


\* The value the stored quadrant qi of layer z holds for field name at
\* pixel (x, y), by the field order the quadrant was sliced with; 0 for a
\* name that order lacks.
StoredValueAt(z, qi, x, y, name) ==
  LET q == gwLayer[<<z, qi>>]
      rc == QuadRect(_ensureLayout(quadrantCount), qi)
      pos == IndexOf(q.fields, name)
      local == (y - rc.yStart) * (rc.xEnd - rc.xStart) + (x - rc.xStart)
  IN  IF pos = 0 THEN 0 ELSE q.data[local * Len(q.fields) + pos]

\* The call in slot t assembles its layer by the reindexing path.
ReindexStep(t) ==
  ops[t].pc = "bufGet" /\ ops'[t].op # "idle" /\ ops'[t].path = "reindex"

\* Names a client may still use that the current schema has dropped.
DroppedNames == FieldNames \ {schema.fieldNames[i] : i \in 1..Len(schema.fieldNames)}

\* C2: when a layer written and flushed under schema S1 is materialized
\* again after the schema evolved to S2, every pixel of a stored quadrant
\* reads, for each field of S2, the stored S1 value if S1 names the field and
\* 0 if not; a field only S1 names is no longer addressable:
\* sampleDenseForCell returns 0 for it and setDenseFromCell /
\* addDenseFromCell leave the buffer unchanged.
C2_ReindexPreservesByName ==
  /\ [][ \A t \in TaskIds :
           ReindexStep(t) =>
             LET r == ops[t]
                 F == Len(r.ts.fieldNames)
                 new == heap'[ops'[t].arr].data
             IN  /\ Len(new) = DENSE_W * DENSE_H * F
                 /\ \A qi \in 0..(r.qCount - 1), px \in Pixels, i \in 1..F :
                      (<<r.z, qi>> \in DOMAIN gwLayer
                         /\ InRect(QuadRect(_ensureLayout(quadrantCount), qi),
                                   px[1], px[2]))
                        => new[_denseIdx(F, px[1], px[2], i - 1) + 1]
                             = StoredValueAt(r.z, qi, px[1], px[2], r.ts.fieldNames[i])
       ]_vars
  /\ [](\A z \in DOMAIN layerCache, c \in WriteCells, n \in DroppedNames :
          sampleDenseForCell(z, c.x, c.y, n) = 0)
  /\ [][ (lastWrite' # <<>> /\ lastWrite' # lastWrite /\ ~ lastWrite'[1].known)
           => \A z \in DOMAIN layerCache :
                /\ z \in DOMAIN layerCache'
                /\ heap'[layerCache'[z]].data = heap[layerCache[z]].data ]_vars

\* A materialization has just reindexed a layer stored as [N2, O2], with
\* both fields of the written cell non-zero, into the schema [O2]: the O2
\* value is in the new buffer and N2 has no channel left.
C2_Witness ==
  \E t \in TaskIds :
     LET r == ops[t]
         pix == _mapCellToDense(r.z, 2, 2)
         qi == _quadrantIndex(_ensureLayout(quadrantCount), pix.bx, pix.by)
     IN  /\ r.path = "reindex" /\ r.pc = "put" /\ Len(r.todo) = r.qCount
         /\ r.ts.fieldNames = <<"O2">>
         /\ <<r.z, qi>> \in DOMAIN gwLayer
         /\ gwLayer[<<r.z, qi>>].fields = <<"N2", "O2">>
         /\ StoredValueAt(r.z, qi, pix.bx, pix.by, "O2") > 0
         /\ StoredValueAt(r.z, qi, pix.bx, pix.by, "N2") > 0
         /\ heap[r.arr].data[_denseIdx(1, pix.bx, pix.by, 0) + 1]
              = StoredValueAt(r.z, qi, pix.bx, pix.by, "O2")


\* ------------------------------------------------- disposal during a call
\* A client that makes calls until it disposes of the grid and none after;
\* calls and flushes suspended at the gateway resume after dispose().
InitDispose == \E fields \in InitialFields : InitReady(fields, 2, TRUE)

NextDispose ==
  \/ ~ disposed /\ Calls({1}, {[x |-> 2, y |-> 2]}, {"O2"}, {1})
  \/ \E t \in TaskIds : OpTmplGet(t, TRUE)
  \/ \E t \in TaskIds : OpLmetaGet(t, TRUE)
  \/ \E t \in TaskIds : OpBufGet(t, TRUE)
  \/ \E t \in TaskIds : OpPut(t, TRUE)
  \/ \E t \in TaskIds : OpGet(t, TRUE)
  \/ \E t \in TaskIds : OpMeta(t, TRUE)
  \/ \E tm \in TimerIds, f \in FlushIds : timerFire(tm, f)
  \/ \E f \in FlushIds, z \in Layers : flushPut(f, z, TRUE)
  \/ \E f \in FlushIds, z \in Layers : flushGet(f, z, TRUE)
  \/ \E f \in FlushIds, z \in Layers : flushMeta(f, z, TRUE)
  \/ \E f \in FlushIds : flushEnd(f)
  \/ dispose

SpecDispose == InitDispose /\ [][NextDispose]_vars

\* C12: an operation that was suspended at a gateway call when dispose() ran
\* discards its result when it resumes: after dispose() the layer cache and
\* the dirty set stay empty and no flush timer is pending.
C12_DisposedStaysEmpty ==
  disposed => /\ DOMAIN layerCache = {}
              /\ DOMAIN dirtyLayers = {}
              /\ timers = {}


\* ------------------------------------------- overlapping materializations
\* Two calls may materialize the same uncached layer at once; the schema is
\* fixed and the gateway does not fail.
InitOverlap == \E fields \in InitialFields : InitReady(fields, 2, TRUE)

NextOverlap ==
  \/ Calls(TaskIds, {[x |-> 2, y |-> 2]}, {"O2"}, {1})
  \/ \E t \in TaskIds : OpTmplGet(t, TRUE)
  \/ \E t \in TaskIds : OpLmetaGet(t, TRUE)
  \/ \E t \in TaskIds : OpBufGet(t, TRUE)
  \/ \E t \in TaskIds : OpPut(t, TRUE)
  \/ \E t \in TaskIds : OpGet(t, TRUE)
  \/ \E t \in TaskIds : OpMeta(t, TRUE)
  \/ \E tm \in TimerIds, f \in FlushIds : timerFire(tm, f)
  \/ \E f \in FlushIds, z \in Layers : flushPut(f, z, TRUE)
  \/ \E f \in FlushIds, z \in Layers : flushGet(f, z, TRUE)
  \/ \E f \in FlushIds, z \in Layers : flushMeta(f, z, TRUE)
  \/ \E f \in FlushIds : flushEnd(f)

SpecOverlap == InitOverlap /\ [][NextOverlap]_vars

\* C13: overlapping ensureDenseLayer calls for one layer converge: a value
\* written to the buffer the first call returned is still what
\* sampleDenseForCell returns for the resident layer after the second call
\* has completed.
C13_OverlapKeepsWrites ==
  (lastWrite # <<>> /\ lastWrite[1].known /\ lastWrite[1].z \in DOMAIN layerCache)
    => SampleLast = ExpectLast


\* ----------------------------------------------------- repeated ensure calls
\* Calls on one layer, among them ensureDenseLayer on the resident layer; the
\* schema is fixed, nothing resets or disposes, and the gateway does not fail.
NextEnsure ==
  \/ NextOverlap
  \/ \E z \in Layers : ensureHit(z)

SpecEnsure == InitOverlap /\ [][NextEnsure]_vars

\* the step is an ensureDenseLayer call answered from the cache, and the
\* ensureDenseLayer call before it was answered for the same layer with no
\* write since
SecondEnsure ==
  /\ probe # <<>>
  /\ probe' # <<>>
  /\ probe'[1].n # probe[1].n
  /\ ops' = ops
  /\ probe'[1].z = probe[1].z

\* C14: two consecutive ensureDenseLayer(z) calls with no write, schema
\* change, reset or disposal in between return buffers with the same
\* contents, and the second call issues no gateway operation.
C14_RepeatedEnsureSame ==
  [][SecondEnsure => (probe'[1].data = probe[1].data /\ UNCHANGED gwVars)]_vars


\* ------------------------------------------------- pickNucleusByDirection
\* Grid widths and heights and direction components the function is applied to.
PickSizes == {2, 3, 4, 6}
MaxDir == 2
PickDirs == { [x |-> a, y |-> b] : a \in (0 - MaxDir)..MaxDir, b \in (0 - MaxDir)..MaxDir }
ZeroDir == [x |-> 0, y |-> 0]

\* pickNucleusByDirection(w, h, dir) is called and its result observed.
pickProbe(w, h, dir) ==
  /\ probe' = <<[w |-> w, h |-> h, dir |-> dir,
                 best |-> pickNucleusByDirection(w, h, dir)]>>
  /\ UNCHANGED <<memVars, gwVars, taskVars, faults, lastWrite>>

InitPick == \E fields \in InitialFields : InitReady(fields, 2, FALSE) /\ ~ dirtyIsMap

NextPick == \E w \in PickSizes, h \in PickSizes, dir \in PickDirs : pickProbe(w, h, dir)

SpecPick == InitPick /\ [][NextPick]_vars

IsEven(k) == k % 2 = 0

\* Candidate i is the first of the candidates whose normalized offset has the
\* largest dot product with the normalized direction.
FirstLargest(i, w, h, dir) ==
  LET C == PickCandidates(w, h)
      s(k) == PickScore(C[k], w, h, dir)
  IN  /\ \A j \in 1..4 : ~ ScoreGt(s(j).n, s(j).m, s(i).n, s(i).m)
      /\ \A j \in 1..(i - 1) : ScoreGt(s(i).n, s(i).m, s(j).n, s(j).m)

C17_ZeroDirIsDefault ==
  (probe # <<>> /\ IsEven(probe[1].w) /\ IsEven(probe[1].h) /\ probe[1].dir = ZeroDir)
    => probe[1].best = pickNucleusByDirection(probe[1].w, probe[1].h, DefaultDir)


\* ------------------------------------------------- the nucleus of a layer
\* Grid sizes, and params.propagationDir of the constructor and of
\* updateGrid: absent (<<>>) or given.
NucSizes == {1, 2, 4, 5}
ParamDirs == { <<>>, <<[x |-> 0, y |-> 1]>>, <<[x |-> 0 - 1, y |-> 0]>> }

\* params?.propagationDir||{x:1,y:0}
DirOr(p) == IF p = <<>> THEN DefaultDir ELSE p[1]

\* What the gateway holds under z:<layer> when the instance opens it:
\* nothing, the nucleus an earlier instance on this bucket stored, or a
\* record this code did not write.
StoredNuclei ==
  {EmptyMap}
    \cup { [z \in Layers |-> pickNucleusByDirection(w, w, DirOr(d))] :
             w \in {2, 4}, d \in {<<>>, <<[x |-> 0 - 1, y |-> 0]>>} }
    \cup { [z \in Layers |-> [x |-> NotInteger, y |-> NotInteger]] }

\* The constructor has seeded the nuclei and _initBuckets has opened the
\* gateway, stored the layout and the schema and stands at the idbGet of its
\* loop over the layers (line 32), w and h captured (line 28).
InitNucleus ==
  \E fields \in InitialFields, w \in NucSizes, h \in NucSizes, d \in ParamDirs,
     stored \in StoredNuclei :
       /\ InitState(fields, 2, TRUE, w, h, pickNucleusByDirection(w, h, DirOr(d)),
                    stored,
                    IF stored = EmptyMap THEN EmptyMap ELSE FirstTemplate(2),
                    [pc |-> "nucGet", z |-> 0, w |-> w, h |-> h, dir |-> d,
                     n |-> [x |-> 0, y |-> 0], sid |-> 0, count |-> 0])
       /\ ~ dirtyIsMap

\* What _initBuckets does not touch.
InitbFrame ==
  /\ UNCHANGED <<schema, db, dirtyIsMap, disposed, quadrantCount, cells, dataTable,
                 heap, layerCache, dirtyLayers, flushHandle, timers, maxField>>
  /\ UNCHANGED <<gwSchema, gwLayer, gwLmeta, ops, flushes, evo, upd, probe, lastWrite>>

\* The same without the flusher's state.
InitbRest ==
  /\ UNCHANGED <<schema, db, dirtyIsMap, disposed, quadrantCount, cells, dataTable,
                 heap, layerCache, timers, maxField>>
  /\ UNCHANGED <<gwSchema, gwLayer, gwLmeta, ops, evo, upd, probe, lastWrite>>

\* Line 44, reached when _ensureZeroTemplate has resolved (there):
\* _flushDirtyLayers is called when the dirty set has an entry.
InitbFlush(there) ==
  IF there /\ DOMAIN dirtyLayers # {}
  THEN \E f \in FlushIds : FlushStart(f, flushHandle)
  ELSE UNCHANGED <<flushes, dirtyLayers, flushHandle>>

\* The record of _initBuckets at the loop over the layers: w and h are read
\* at line 28.
InitbAtLoop ==
  [initb EXCEPT !.pc = "nucGet", !.z = 0, !.w = cells.x, !.h = cells.y]

\* Lines 7-9: the bucket and the database open (or the bucket is unavailable).
initOpen(ok) ==
  /\ initb.pc = "open"
  /\ db' = ok
  /\ initb' = [initb EXCEPT !.pc = IF ok THEN "layoutPut" ELSE "unavailable"]
  /\ UNCHANGED <<schema, dirtyIsMap, disposed, quadrantCount, cells, nuclei, dataTable,
                 heap, layerCache, dirtyLayers, flushHandle, timers, maxField>>
  /\ UNCHANGED <<gwVars, ops, flushes, evo, upd, faults, probe, lastWrite>>

\* Line 17: the layout record is put.
initLayoutPut(ok) ==
  /\ initb.pc = "layoutPut"
  /\ Settle(ok)
  /\ initb' = [initb EXCEPT !.pc = IF ok THEN "schemaGet" ELSE "failed"]
  /\ UNCHANGED <<nuclei, gwNuc, gwTmpl>>
  /\ InitbFrame

\* Lines 19-26: the stored schema record arrives.  None, or one with other
\* fields: the schema in memory is to be stored.  One with the fields in
\* memory: its id and fields replace the schema in memory.
initSchemaGet(ok) ==
  /\ initb.pc = "schemaGet"
  /\ Settle(ok)
  /\ IF ~ ok
     THEN /\ initb' = [initb EXCEPT !.pc = "failed"]
          /\ UNCHANGED schema
     ELSE IF gwSchema = <<>> \/ ~ arraysEqual(gwSchema[1].fields, schema.fieldNames)
     THEN /\ initb' = [initb EXCEPT !.pc = "schemaPut",
                         !.val = [id |-> schema.id, fields |-> schema.fieldNames]]
          /\ UNCHANGED schema
     ELSE /\ schema' = [id |-> gwSchema[1].id, fieldNames |-> gwSchema[1].fields]
          /\ initb' = InitbAtLoop
  /\ UNCHANGED <<db, dirtyIsMap, disposed, quadrantCount, cells, nuclei, dataTable,
                 heap, layerCache, dirtyLayers, flushHandle, timers, maxField>>
  /\ UNCHANGED <<gwVars, ops, flushes, evo, upd, probe, lastWrite>>

\* Line 21.
initSchemaPut(ok) ==
  /\ initb.pc = "schemaPut"
  /\ Settle(ok)
  /\ gwSchema' = IF ok THEN <<initb.val>> ELSE gwSchema
  /\ initb' = IF ok THEN InitbAtLoop ELSE [initb EXCEPT !.pc = "failed"]
  /\ UNCHANGED <<schema, db, dirtyIsMap, disposed, quadrantCount, cells, nuclei,
                 dataTable, heap, layerCache, dirtyLayers, flushHandle, timers, maxField>>
  /\ UNCHANGED <<gwNuc, gwTmpl, gwLayer, gwLmeta, ops, flushes, evo, upd, probe,
                 lastWrite>>

\* After layer z: the next layer, or _ensureZeroTemplate (line 41).
InitbAfter(z) ==
  IF z + 1 \in Layers
  THEN [initb EXCEPT !.pc = "nucGet", !.z = z + 1]
  ELSE [initb EXCEPT !.pc = "tmplGet", !.sid = schema.id,
                     !.count = IF quadrantCount = 0 THEN DEFAULT_QUADRANT_COUNT
                               ELSE quadrantCount]

\* Lines 32-38: the stored nucleus record of layer z arrives.  None: the
\* nucleus in memory is to be stored (this._nuclei[z] is an object since the
\* constructor, so line 34 never calls pickNucleusByDirection).  One: it
\* replaces the nucleus in memory; getNucleus ignores it unless cx and cy are
\* integers.
initNucGet(ok) ==
  LET z == initb.z
  IN  /\ initb.pc = "nucGet"
      /\ Settle(ok)
      /\ IF ~ ok
         THEN /\ initb' = [initb EXCEPT !.pc = "failed"]
              /\ UNCHANGED nuclei
         ELSE IF z \notin DOMAIN gwNuc
         THEN /\ initb' = [initb EXCEPT !.pc = "nucPut",
                             !.n = NucleusEntry(z)]
              /\ UNCHANGED nuclei
         ELSE /\ nuclei' = IF gwNuc[z].x = NotInteger \/ gwNuc[z].y = NotInteger
                           THEN [k \in (DOMAIN nuclei) \ {z} |-> nuclei[k]]
                           ELSE PutKey(nuclei, z, gwNuc[z])
              /\ initb' = InitbAfter(z)
      /\ UNCHANGED <<gwNuc, gwTmpl>>
      /\ InitbFrame

\* Line 35.
initNucPut(ok) ==
  /\ initb.pc = "nucPut"
  /\ Settle(ok)
  /\ gwNuc' = IF ok THEN PutKey(gwNuc, initb.z, initb.n) ELSE gwNuc
  /\ initb' = IF ok THEN InitbAfter(initb.z) ELSE [initb EXCEPT !.pc = "failed"]
  /\ UNCHANGED <<nuclei, gwTmpl>>
  /\ InitbFrame

\* Line 41: _ensureZeroTemplate (part_006 lines 111-114) looks the template up.
initTmplGet(ok) ==
  /\ initb.pc = "tmplGet"
  /\ Settle(ok)
  /\ initb' = [initb EXCEPT !.pc = IF ~ ok THEN "failed"
                                   ELSE IF initb.sid \notin DOMAIN gwTmpl THEN "tmplPut"
                                   ELSE "done"]
  /\ InitbFlush(ok /\ initb.sid \in DOMAIN gwTmpl)
  /\ UNCHANGED <<nuclei, gwNuc, gwTmpl>>
  /\ InitbRest

\* and stores it; then line 44.
initTmplPut(ok) ==
  /\ initb.pc = "tmplPut"
  /\ Settle(ok)
  /\ gwTmpl' = IF ok THEN PutKey(gwTmpl, initb.sid, initb.count) ELSE gwTmpl
  /\ initb' = [initb EXCEPT !.pc = IF ok THEN "done" ELSE "failed"]
  /\ InitbFlush(ok)
  /\ UNCHANGED <<nuclei, gwNuc>>
  /\ InitbRest

\* n = getNucleus(z); _mapCellToDense(z, n.x, n.y)
mapProbe(z) ==
  /\ probe' = <<[z |-> z, nuc |-> getNucleus(z),
                 pix |-> _mapCellToDense(z, getNucleus(z).x, getNucleus(z).y)]>>
  /\ UNCHANGED <<memVars, gwVars, taskVars, faults, lastWrite>>

\* updateGrid with a new grid size (0: none) and direction, no fieldNames.
NucleusParams ==
  { [cells |-> c, fields |-> [isArray |-> FALSE, names |-> <<>>], dir |-> DirOr(d)] :
      c \in {0, 5}, d \in {<<>>, <<[x |-> 0, y |-> 1]>>} }

NextNucleus ==
  \/ initNucGet(TRUE)
  \/ initNucPut(TRUE)
  \/ initTmplGet(TRUE)
  \/ initTmplPut(TRUE)
  \/ \E p \in NucleusParams : updateGrid(p)
  \/ UpdLayoutPut(TRUE)
  \/ UpdSchemaPut(TRUE)
  \/ UpdNucPut(TRUE)
  \/ UpdTmplGet(TRUE)
  \/ UpdTmplPut(TRUE)
  \/ \E z \in Layers : mapProbe(z)

SpecNucleus == InitNucleus /\ [][NextNucleus]_vars

DenseCentre == [bx |-> (DENSE_W \div 2) - 1, by |-> (DENSE_H \div 2) - 1]

\* C15: the nucleus of a layer maps to the fixed dense centre, for every grid
\* size and whether the nucleus was seeded, loaded from the stored layer
\* metadata or is the fallback of getNucleus.
C15_NucleusMapsToCentre ==
  probe # <<>> => probe[1].pix = DenseCentre

\* on a 4 x 4 grid _initBuckets has loaded the nucleus (0, 0), which no seed
\* of that size gives, and the mapping of that nucleus was observed
C15_Witness ==
  /\ probe # <<>>
  /\ initb.pc = "done"
  /\ upd.pc = "idle"
  /\ cells = [x |-> 4, y |-> 4]
  /\ 0 \in DOMAIN nuclei
  /\ nuclei[0] = [x |-> 0, y |-> 0]
  /\ probe[1].nuc = nuclei[0]
  /\ probe[1].pix = DenseCentre

\* C20: the nucleus of a layer is fixed between updateGrid calls: what
\* getNucleus(z) returns changes only in a step of updateGrid.
C20_NucleusFixed ==
  [][\A z \in Layers : getNucleus(z)' # getNucleus(z) => upd' # upd]_vars


\* --------------------------------------------------- the debounce timer
\* Writes, timer firings, flushes, updateGrid without fieldNames and dispose
\* on one layer; the gateway does not fail.
InitTimer == \E fields \in InitialFields : InitReady(fields, 2, TRUE)

TimerParams ==
  { [cells |-> 0, fields |-> [isArray |-> FALSE, names |-> <<>>], dir |-> DefaultDir] }

NextTimer ==
  \/ Calls({1}, {[x |-> 2, y |-> 2]}, {"O2"}, {1})
  \/ \E t \in TaskIds : OpTmplGet(t, TRUE)
  \/ \E t \in TaskIds : OpLmetaGet(t, TRUE)
  \/ \E t \in TaskIds : OpBufGet(t, TRUE)
  \/ \E t \in TaskIds : OpPut(t, TRUE)
  \/ \E t \in TaskIds : OpGet(t, TRUE)
  \/ \E t \in TaskIds : OpMeta(t, TRUE)
  \/ \E tm \in TimerIds, f \in FlushIds : timerFire(tm, f)
  \/ \E f \in FlushIds, z \in Layers : flushPut(f, z, TRUE)
  \/ \E f \in FlushIds, z \in Layers : flushGet(f, z, TRUE)
  \/ \E f \in FlushIds, z \in Layers : flushMeta(f, z, TRUE)
  \/ \E f \in FlushIds : flushEnd(f)
  \/ \E p \in TimerParams : updateGrid(p)
  \/ UpdLayoutPut(TRUE)
  \/ UpdSchemaPut(TRUE)
  \/ UpdNucPut(TRUE)
  \/ UpdTmplGet(TRUE)
  \/ dispose

SpecTimer == InitTimer /\ [][NextTimer]_vars

MarksKept ==
  \A z \in DOMAIN dirtyLayers :
    z \in DOMAIN dirtyLayers' /\ dirtyLayers[z] \subseteq dirtyLayers'[z]

\* C19: a flush takes the whole dirty set and clears it in one step, and from
\* then on removes no dirty mark: what a write marks while the flush is
\* suspended at a gateway call is in the dirty set when the flush completes.
C19_AtomicSwap ==
  [][\A f \in FlushIds :
       /\ (flushes[f].pc = "idle" /\ flushes'[f].pc = "run")
            => (flushes'[f].snapshot = dirtyLayers /\ dirtyLayers' = EmptyMap)
       /\ (flushes[f].pc = "run" /\ flushes'[f] # flushes[f]) => MarksKept]_vars

\* a flush has completed without raising and the dirty set holds a mark with
\* no timer scheduled for it: the mark was made while the flush was suspended
C19_Witness ==
  \E f \in FlushIds :
    /\ flushes[f].ended
    /\ flushes[f].pc = "idle"
    /\ ~ flushes[f].raised
    /\ flushHandle = 0
    /\ DOMAIN dirtyLayers # {}


\* ------------------------------------------------------ the zero template
\* task t's _ensureZeroTemplate puts the template in this step
TemplatePut(t) == ops[t].pc = "tmplPut" /\ ops'[t].pc = "lmetaGet"

\* task t's _ensureZeroTemplate returns in this step
TemplateReturned(t) ==
  ops[t].pc \in {"tmplGet", "tmplPut"} /\ ops'[t].pc = "lmetaGet"

\* C21: _ensureZeroTemplate is idempotent for a fixed schema id: every call,
\* sequential or overlapping, returns the stored template with its quadrant
\* count, the stored template never changes, and it is put at most once.
C21_TemplateOnce ==
  [][\A t \in TaskIds :
       /\ TemplatePut(t) => ops[t].sid \notin DOMAIN gwTmpl
       /\ TemplateReturned(t) => ops'[t].qCount = gwTmpl'[ops[t].sid]
       /\ \A s \in DOMAIN gwTmpl : s \in DOMAIN gwTmpl' /\ gwTmpl'[s] = gwTmpl[s]]_vars

\* ---------------------------------------------------------------------------
\* The sparse overlay table: setCellData, applyBlobs, updateDispersion and the
\* carry-over of updateGrid, with the gateway open and answering.

\* The cells the sparse calls address: two inside the first grid, one outside.
SparseCells == { <<0, 0>>, <<3, 2>>, <<4, 0>> }

\* values of setCellData.
SparseValues ==
  { [n \in {"O2"} |-> v] : v \in 0..MaxVal } \cup { [n \in {"N2"} |-> v] : v \in 0..1 }

\* data of a blob cell: none, [], [0], [1] (saveBlobs writes Array.from(data)),
\* {O2: 1}, {O2: 0}.
BlobDatas ==
  { [has |-> FALSE, isArr |-> TRUE, a |-> <<>>, o |-> EmptyMap] }
  \cup { [has |-> TRUE, isArr |-> TRUE, a |-> a, o |-> EmptyMap] : a \in { <<>>, <<0>>, <<1>> } }
  \cup { [has |-> TRUE, isArr |-> FALSE, a |-> <<>>, o |-> [n \in {"O2"} |-> v]] : v \in 0..1 }

BlobCells ==
  { [x |-> c[1], y |-> c[2], z |-> 0, has |-> d.has, isArr |-> d.isArr, a |-> d.a, o |-> d.o] :
      c \in SparseCells, d \in BlobDatas }

\* loadBlobs' results: null, a blob of another layout, a blob of this layout
\* with one cell.
BlobInputs ==
  { [null |-> TRUE, layout |-> cells, data |-> <<>>],
    [null |-> FALSE, layout |-> [x |-> cells.x + 1, y |-> cells.y], data |-> <<>>] }
  \cup { [null |-> FALSE, layout |-> cells, data |-> <<c>>] : c \in BlobCells }

SparseParams ==
  { [cells |-> c, fields |-> [isArray |-> FALSE, names |-> <<>>], dir |-> DefaultDir] :
      c \in {0, 2, 4} }

InitSparse == \E fields \in InitialFields : InitReady(fields, 2, TRUE) /\ ~ dirtyIsMap

NextSparse ==
  \/ \E c \in SparseCells, values \in SparseValues : setCellData(c[1], c[2], 0, values)
  \/ \E blobs \in BlobInputs : applyBlobs(blobs)
  \/ \E halve \in BOOLEAN : updateDispersion(halve)
  \/ \E p \in SparseParams : updateGrid(p)
  \/ UpdLayoutPut(TRUE)
  \/ UpdSchemaPut(TRUE)
  \/ UpdNucPut(TRUE)
  \/ UpdTmplGet(TRUE)

SpecSparse == InitSparse /\ [][NextSparse]_vars

\* Some envVariable of the entry, or some element of its array, is non-zero.
NonZeroEntry(e) ==
  \/ \E n \in DOMAIN e.vals : e.vals[n] # 0
  \/ \E i \in DOMAIN e.arr : e.arr[i] # 0

\* C22: the sparse overlay table never holds an entry whose field values are
\* all zero, after any setCellData, applyBlobs, updateDispersion or updateGrid.
C22_NoAllZeroEntries == \A k \in 1..Len(dataTable) : NonZeroEntry(dataTable[k])

\* Entry k of the table before the resize keeps its O2 value at the cell it is
\* re-projected to, when that cell is inside the new grid and no other entry
\* with another O2 value lands on it.
CarriedOver(k) ==
  LET e == dataTable[k]
      o2 == GetCellO2(dataTable, cells, e.x, e.y, e.z)
      xi == Reproject(e.x, cells.x, cells'.x)
      yi == Reproject(e.y, cells.y, cells'.y)
      alone == \A j \in 1..Len(dataTable) :
                 (/\ Reproject(dataTable[j].x, cells.x, cells'.x) = xi
                  /\ Reproject(dataTable[j].y, cells.y, cells'.y) = yi
                  /\ dataTable[j].z = e.z)
                 => GetCellO2(dataTable, cells, dataTable[j].x, dataTable[j].y, e.z) = o2
  IN  (o2 # 0 /\ alone /\ InGrid(cells', xi, yi, e.z))
        => GetCellO2(dataTable', cells', xi, yi, e.z) = o2

\* The step in which updateGrid runs up to its first await (line 293).
UpdateGridRan == upd.pc = "idle" /\ upd'.pc = "layoutPut"

\* Every entry of the table after the resize is inside the new grid.
NoneOutside ==
  \A k \in 1..Len(dataTable') :
    InGrid(cells', dataTable'[k].x, dataTable'[k].y, dataTable'[k].z)

\* C23: after updateGrid every sparse entry of the pre-resize table whose
\* re-projected cell lies inside the new bounds is present at that cell with
\* its O2 value, and no entry lies outside the new bounds; with unchanged
\* dimensions every non-zero entry is kept at the same cell with the same value.
C23_CarryOver ==
  [][UpdateGridRan
       => (NoneOutside /\ \A k \in 1..Len(dataTable) : CarriedOver(k))]_vars

\* ---------------------------------------------------------------------------
\* Durability: writes, flushes, and the cache reset of updateGrid called with
\* unchanged dimensions once a flush has ended without error and nothing
\* newer is waiting; every gateway call succeeds.

\* A flush has ended without error and no write, mark, timer, flush or
\* ensureDenseLayer call is outstanding.
FlushedAndQuiet ==
  /\ \E f \in FlushIds : flushes[f].ended /\ ~ flushes[f].raised
  /\ \A f \in FlushIds : flushes[f].pc = "idle"
  /\ \A t \in TaskIds : ops[t].op = "idle"
  /\ DOMAIN dirtyLayers = {} /\ flushHandle = 0 /\ timers = {}

InitDurable == \E fields \in InitialFields : InitReady(fields, 4, TRUE)

NextDurable ==
  \/ Calls({1}, {[x |-> 0, y |-> 0], [x |-> 3, y |-> 3]}, {"O2"}, WriteVals)
  \/ \E z \in Layers : ensureHit(z)
  \/ \E t \in TaskIds : OpTmplGet(t, TRUE)
  \/ \E t \in TaskIds : OpLmetaGet(t, TRUE)
  \/ \E t \in TaskIds : OpBufGet(t, TRUE)
  \/ \E t \in TaskIds : OpPut(t, TRUE)
  \/ \E t \in TaskIds : OpGet(t, TRUE)
  \/ \E t \in TaskIds : OpMeta(t, TRUE)
  \/ \E tm \in TimerIds, f \in FlushIds : timerFire(tm, f)
  \/ \E f \in FlushIds, z \in Layers : flushPut(f, z, TRUE)
  \/ \E f \in FlushIds, z \in Layers : flushGet(f, z, TRUE)
  \/ \E f \in FlushIds, z \in Layers : flushMeta(f, z, TRUE)
  \/ \E f \in FlushIds : flushEnd(f)
  \/ \E p \in TimerParams : FlushedAndQuiet /\ updateGrid(p)
  \/ UpdLayoutPut(TRUE)
  \/ UpdSchemaPut(TRUE)
  \/ UpdNucPut(TRUE)
  \/ UpdTmplGet(TRUE)

SpecDurable == InitDurable /\ [][NextDurable]_vars

\* The step in which the ensureDenseLayer call t caches layer z from the
\* quadrant reads.
Rebuilt(t, z) ==
  /\ ops[t].op = "ensure" /\ ops[t].pc = "bufGet" /\ ops[t].z = z
  /\ z \notin DOMAIN layerCache /\ z \in DOMAIN layerCache'

InitStored(fields, hp, cache, stored, lmeta) ==
  LET nuc == pickNucleusByDirection(GridCells, GridCells, DefaultDir)
  IN  /\ schema = [id |-> 1, fieldNames |-> fields]
      /\ db = TRUE
      /\ dirtyIsMap \in BOOLEAN
      /\ disposed = FALSE
      /\ quadrantCount = 4
      /\ cells = [x |-> GridCells, y |-> GridCells]
      /\ nuclei = [z \in Layers |-> nuc]
      /\ dataTable = <<>>
      /\ heap = hp
      /\ layerCache = cache
      /\ dirtyLayers = EmptyMap
      /\ flushHandle = 0
      /\ timers = {}
      /\ maxField = [f \in FieldNames |-> 0]
      /\ gwSchema = <<[id |-> 1, fields |-> fields]>>
      /\ gwNuc = [z \in Layers |-> nuc]
      /\ gwTmpl = FirstTemplate(4)
      /\ gwLayer = stored
      /\ gwLmeta = lmeta
      /\ ops = [t \in TaskIds |-> NoOp]
      /\ flushes = [f \in FlushIds |-> IdleFlush]
      /\ evo = IdleEvo
      /\ upd = IdleUpd
      /\ initb = [pc |-> "done", z |-> 0]
      /\ faults = 0
      /\ probe = <<>>
      /\ lastWrite = <<>>

\* The slices of the quadrants S of a layer whose buffer holds data.
SlicesOf(data, S, fields) ==
  [k \in {<<0, qi>> : qi \in S} |->
     [data |-> _sliceQuadrant(data, k[2], Len(fields), _ensureLayout(4)),
      fields |-> fields]]

\* The state the first ensureDenseLayer(0) leaves on the constructed grid
\* (lines 178-188): the zero buffer cached, its four quadrant slices and
\* the layer metadata of schema 1 stored.
InitLive ==
  \E fields \in InitialFields :
    LET zero == denseFromQuadrants(4, fields)
    IN  InitStored(fields, [b \in {1} |-> Buffer(zero, fields)], [z \in {0} |-> 1],
                   SlicesOf(zero, 0..3, fields),
                   [z \in {0} |-> [sid |-> 1, fields |-> fields]])

\* A gateway call of the flush returns, or the flush settles.
FlushReturns ==
  \E f \in FlushIds :
    \/ \E z \in Layers : flushPut(f, z, TRUE) \/ flushGet(f, z, TRUE) \/ flushMeta(f, z, TRUE)
    \/ flushEnd(f)

TimerFires == \E tm \in TimerIds, f \in FlushIds : timerFire(tm, f)

NextLive ==
  \/ \E c \in {[x |-> 0, y |-> 0], [x |-> 3, y |-> 3]} :
       writeResident("set", 0, c, "O2", 1)
  \/ FlushReturns
  \/ TimerFires

SpecLive ==
  /\ InitLive /\ [][NextLive]_vars
  /\ WF_vars(FlushReturns) /\ WF_vars(TimerFires)

\* Quadrant qi of layer z carries a dirty mark.
Marked(z, qi) == z \in DOMAIN dirtyLayers /\ qi \in dirtyLayers[z]

\* The gateway holds quadrant qi of layer z as the resident buffer has it.
Persisted(z, qi) ==
  /\ z \in DOMAIN layerCache /\ <<z, qi>> \in DOMAIN gwLayer
  /\ gwLayer[<<z, qi>>].data =
       _sliceQuadrant(heap[layerCache[z]].data, qi, Len(schema.fieldNames),
                      _ensureLayout(quadrantCount))

InitSlices == \E fields \in InitialFields : InitReady(fields, 4, TRUE)

SliceEvolves ==
  { [isArray |-> TRUE, names |-> n] : n \in { <<"O2", "N2">>, <<"O2">> } }

NextSlices ==
  \/ Calls({1}, {[x |-> 0, y |-> 0]}, {"O2"}, {1})
  \/ \E inp \in SliceEvolves : evolveSchema(inp)
  \/ EvolvePut(TRUE)
  \/ \E t \in TaskIds : OpTmplGet(t, TRUE)
  \/ \E t \in TaskIds : OpTmplPut(t, TRUE)
  \/ \E t \in TaskIds : OpLmetaGet(t, TRUE)
  \/ \E t \in TaskIds : OpBufGet(t, TRUE)
  \/ \E t \in TaskIds : OpPut(t, TRUE)
  \/ \E t \in TaskIds : OpGet(t, TRUE)
  \/ \E t \in TaskIds : OpMeta(t, TRUE)
  \/ \E tm \in TimerIds, f \in FlushIds : timerFire(tm, f)
  \/ \E f \in FlushIds, z \in Layers : flushPut(f, z, TRUE)
  \/ \E f \in FlushIds, z \in Layers : flushGet(f, z, TRUE)
  \/ \E f \in FlushIds, z \in Layers : flushMeta(f, z, TRUE)
  \/ \E f \in FlushIds : flushEnd(f)

SpecSlices == InitSlices /\ [][NextSlices]_vars

\* No call and no flush is between its first idbPut for layer z and the
\* idbPut of z's metadata.
NoWriteInFlight(z) ==
  /\ \A t \in TaskIds : ops[t].z = z => ops[t].pc \notin {"put", "get", "meta"}
  /\ \A f \in FlushIds : flushes[f].pc = "run" => z \notin DOMAIN flushes[f].chains

WriteReturned ==
  /\ lastWrite' # lastWrite /\ lastWrite' # <<>>
  /\ ~ lastWrite'[1].raised

\* The quadrant of the pixel the last write stored to is marked dirty.
WrittenQuadrantDirty ==
  LET w == lastWrite[1]
      pix == _mapCellToDense(w.z, w.x, w.y)
  IN  Marked(w.z, _quadrantIndex(_ensureLayout(quadrantCount), pix.bx, pix.by))

\* A flush timer is pending or a flush is in progress.
FlushComing == timers # {} \/ \E f \in FlushIds : flushes[f].pc = "run"

NoCallInFlight == \A t \in TaskIds : ops[t].op = "idle"

InitFirst == \E fields \in InitialFields : InitReady(fields, 4, TRUE) /\ ~ dirtyIsMap

NextFirst ==
  \/ \E c \in SparseCells, values \in SparseValues :
       NoCallInFlight /\ setCellData(c[1], c[2], 0, values)
  \/ \E blobs \in BlobInputs : NoCallInFlight /\ applyBlobs(blobs)
  \/ \E t \in TaskIds, z \in Layers :
       NoCallInFlight /\ ensureMiss(t, "ensure", z, [x |-> 0, y |-> 0], "", 0)
  \/ \E t \in TaskIds : OpTmplGet(t, TRUE)
  \/ \E t \in TaskIds : OpLmetaGet(t, TRUE)
  \/ \E t \in TaskIds : OpBufGet(t, TRUE)
  \/ \E t \in TaskIds : OpPut(t, TRUE)
  \/ \E t \in TaskIds : OpGet(t, TRUE)
  \/ \E t \in TaskIds : OpMeta(t, TRUE)

SpecFirst == InitFirst /\ [][NextFirst]_vars

\* The value entry e holds for field name: a named property, or the element
\* of its array at the field's index.
EntryValue(e, name) ==
  LET pos == IndexOf(schema.fieldNames, name)
  IN  IF name \in DOMAIN e.vals THEN e.vals[name]
      ELSE IF pos > 0 /\ pos <= Len(e.arr) THEN e.arr[pos]
      ELSE 0

\* Entry k of the table is of layer z and inside the grid.
EntryInGrid(k, z) ==
  dataTable[k].z = z /\ InGrid(cells, dataTable[k].x, dataTable[k].y, z)

\* The buffer index of field position pos at the pixel entry k maps to.
EntryIndex(k, z, pos) ==
  LET pix == _mapCellToDense(z, dataTable[k].x, dataTable[k].y)
  IN  _denseIdx(Len(schema.fieldNames), pix.bx, pix.by, pos - 1)

\* data is the zero template overwritten by the non-zero values of the
\* entries of layer z: every such value is at its index unless a later entry
\* overwrote it, and every other element is zero.
ProjectedBuffer(data, z) ==
  /\ \A k \in 1..Len(dataTable), pos \in 1..Len(schema.fieldNames) :
       LET v == EntryValue(dataTable[k], schema.fieldNames[pos])
       IN  (EntryInGrid(k, z) /\ v # 0
            /\ \A j \in (k + 1)..Len(dataTable) :
                 ~ (EntryInGrid(j, z) /\ EntryIndex(j, z, pos) = EntryIndex(k, z, pos)
                    /\ EntryValue(dataTable[j], schema.fieldNames[pos]) # 0))
           => ArrGet(data, EntryIndex(k, z, pos)) = v
  /\ \A i \in 0..(Len(data) - 1) :
       ArrGet(data, i) # 0 =>
         \E k \in 1..Len(dataTable), pos \in 1..Len(schema.fieldNames) :
           /\ EntryInGrid(k, z) /\ EntryIndex(k, z, pos) = i
           /\ EntryValue(dataTable[k], schema.fieldNames[pos]) = ArrGet(data, i)

\* The step in which call t returns layer z built on the all-absent path.
FreshReturned(t, z) ==
  /\ ops[t].path = "fresh" /\ ops[t].pc = "meta" /\ ops[t].z = z
  /\ ops'[t].op = "idle" /\ z \in DOMAIN layerCache'

\* All quadrant slices of the buffer and the metadata of the schema are stored.
AllStored(data, z, qc) ==
  /\ \A qi \in 0..(qc - 1) :
       /\ <<z, qi>> \in DOMAIN gwLayer
       /\ gwLayer[<<z, qi>>].data =
            _sliceQuadrant(data, qi, Len(schema.fieldNames), _ensureLayout(qc))
  /\ z \in DOMAIN gwLmeta
  /\ gwLmeta[z] = [sid |-> schema.id, fields |-> schema.fieldNames]

\* C28: when ensureDenseLayer(z) finds all Q quadrant slices absent, the
\* buffer it caches and returns is the zero template overwritten at
\* _mapCellToDense(z, x, y) by every non-zero field value of each sparse entry
\* inside the grid, and on return all Q slices of that buffer and the layer
\* metadata of the current schema are stored in the gateway.
C28_FirstMaterialization ==
  [][\A t \in TaskIds, z \in Layers :
       FreshReturned(t, z) =>
         /\ ProjectedBuffer(heap[layerCache[z]].data, z)'
         /\ AllStored(heap[layerCache[z]].data, z, quadrantCount)']_vars

\* ---------------------------------------------------------------------------
\* Back-fill: the gateway holds the metadata of the current schema and some,
\* not all, quadrants of layer 0; ensureDenseLayer calls, one at a time,
\* with every gateway call succeeding.

\* Buffers the stored quadrants were sliced from.
StoredImages ==
  { [k \in 1..(DENSE_W * DENSE_H) |-> 1 + (k % 2)],
    ArrSet(ZeroArr(1), 5, 1) }

InitBackfill ==
  \E fields \in InitialFields, img \in StoredImages, S \in SUBSET (0..3) :
    /\ S # {} /\ S # 0..3
    /\ InitStored(fields, EmptyMap, EmptyMap, SlicesOf(img, S, fields),
                  [z \in {0} |-> [sid |-> 1, fields |-> fields]])
    /\ ~ dirtyIsMap

NextBackfill ==
  \/ \E t \in TaskIds, z \in Layers :
       NoCallInFlight /\ ensureMiss(t, "ensure", z, [x |-> 0, y |-> 0], "", 0)
  \/ \E z \in Layers : ensureHit(z)
  \/ \E t \in TaskIds : OpTmplGet(t, TRUE)
  \/ \E t \in TaskIds : OpLmetaGet(t, TRUE)
  \/ \E t \in TaskIds : OpBufGet(t, TRUE)
  \/ \E t \in TaskIds : OpPut(t, TRUE)
  \/ \E t \in TaskIds : OpGet(t, TRUE)
  \/ \E t \in TaskIds : OpMeta(t, TRUE)

SpecBackfill == InitBackfill /\ [][NextBackfill]_vars

\* Quadrant qi of data, sliced under the layout in force.
RegionOf(data, qi) ==
  _sliceQuadrant(data, qi, Len(schema.fieldNames), _ensureLayout(quadrantCount))

\* Call t assembles layer z on the same-schema path with quadrants missing.
BackfillBuilt(t, z) ==
  /\ ops[t].pc = "bufGet" /\ ops[t].z = z
  /\ ops'[t].path = "backfill"

\* Call t returns layer z from the back-fill path.
BackfillReturned(t, z) ==
  /\ ops[t].path = "backfill" /\ ops[t].pc = "meta" /\ ops[t].z = z
  /\ ops'[t].op = "idle" /\ z \in DOMAIN layerCache'

\* C29: when ensureDenseLayer(z) finds stored metadata equal to the current
\* schema and some but not all quadrants present, every present quadrant's
\* region of the buffer equals the stored slice, every missing quadrant's
\* region holds the zero-template values, and when the call returns every
\* quadrant is stored as the returned buffer has it.
C29_BackfillMissing ==
  [][\A t \in TaskIds, z \in Layers :
       /\ BackfillBuilt(t, z) =>
            \A qi \in 0..(quadrantCount - 1) :
              RegionOf(heap'[ops'[t].arr].data, qi) =
                IF <<z, qi>> \in DOMAIN gwLayer THEN gwLayer[<<z, qi>>].data
                ELSE RegionOf(denseFromQuadrants(quadrantCount, schema.fieldNames), qi)
       /\ BackfillReturned(t, z) =>
            /\ heap'[layerCache'[z]] = heap[ops[t].arr]
            /\ \A qi \in 0..(quadrantCount - 1) :
                 /\ <<z, qi>> \in DOMAIN gwLayer'
                 /\ gwLayer'[<<z, qi>>].data = RegionOf(heap[ops[t].arr].data, qi)]_vars

\* The back-fill has returned: some stored quadrant holds a value, the layer
\* is resident and all four quadrants are stored.
C29_Witness ==
  /\ 0 \in DOMAIN layerCache
  /\ \A qi \in 0..3 : <<0, qi>> \in DOMAIN gwLayer
  /\ \E k \in 1..Len(heap[layerCache[0]].data) : heap[layerCache[0]].data[k] # 0
  /\ \E qi \in 0..3 : \A k \in DOMAIN gwLayer[<<0, qi>>].data :
                          gwLayer[<<0, qi>>].data[k] = 0

\* ---------------------------------------------------------------------------
\* Re-materialization: the gateway holds at least one quadrant of layer 0, with
\* the metadata of the current schema or (a first materialization that failed
\* before its metadata put) without metadata; the sparse table is filled by
\* setCellData while no call is in flight.

InitRemat ==
  \E fields \in InitialFields, img \in StoredImages, S \in SUBSET (0..3) :
    \E lmeta \in { EmptyMap, [z \in {0} |-> [sid |-> 1, fields |-> fields]] } :
      /\ S # {}
      /\ InitStored(fields, EmptyMap, EmptyMap, SlicesOf(img, S, fields), lmeta)
      /\ ~ dirtyIsMap

NextRemat ==
  \/ \E c \in {<<0, 0>>, <<3, 2>>} :
       NoCallInFlight /\ setCellData(c[1], c[2], 0, [n \in {"O2"} |-> MaxVal])
  \/ \E t \in TaskIds, z \in Layers :
       NoCallInFlight /\ ensureMiss(t, "ensure", z, [x |-> 0, y |-> 0], "", 0)
  \/ \E t \in TaskIds : OpTmplGet(t, TRUE)
  \/ \E t \in TaskIds : OpLmetaGet(t, TRUE)
  \/ \E t \in TaskIds : OpBufGet(t, TRUE)
  \/ \E t \in TaskIds : OpPut(t, TRUE)
  \/ \E t \in TaskIds : OpGet(t, TRUE)
  \/ \E t \in TaskIds : OpMeta(t, TRUE)

SpecRemat == InitRemat /\ [][NextRemat]_vars

\* What the store gives element i of layer z's buffer when the metadata the
\* call read is lmeta: the stored slice's value under the current schema,
\* zero for a missing quadrant and for a layer stored without metadata.
StoredPixel(z, i, lmeta) ==
  LET F == Len(schema.fieldNames)
      lay == _ensureLayout(quadrantCount)
      x == (i \div F) % DENSE_W
      y == (i \div F) \div DENSE_W
      qi == _quadrantIndex(lay, x, y)
      r == QuadRect(lay, qi)
  IN  IF SameSchema(lmeta, schema) /\ <<z, qi>> \in DOMAIN gwLayer
      THEN ArrGet(gwLayer[<<z, qi>>].data,
                  ((y - r.yStart) * (r.xEnd - r.xStart) + (x - r.xStart)) * F + (i % F))
      ELSE 0

\* Call t assembles layer z with at least one quadrant stored.
Rematerialized(t, z) ==
  /\ ops[t].pc = "bufGet" /\ ops[t].z = z /\ ops'[t].pc # "bufGet"
  /\ \E k \in DOMAIN gwLayer : k[1] = z

\* The buffer call t has assembled in that step.
AssembledBy(t, z) ==
  IF ops'[t].op = "idle" THEN heap'[layerCache'[z]].data ELSE heap'[ops'[t].arr].data

\* C30: re-materializing a layer that has at least one stored quadrant never
\* overwrites a pixel value with a sparse-table value: at the pixel of every
\* sparse entry the buffer holds what the store gives.
C30_NoSparseOnRemat ==
  [][\A t \in TaskIds, z \in Layers :
       Rematerialized(t, z) =>
         \A k \in 1..Len(dataTable), pos \in 1..Len(schema.fieldNames) :
           (EntryInGrid(k, z) /\ EntryValue(dataTable[k], schema.fieldNames[pos]) # 0)
             => ArrGet(AssembledBy(t, z), EntryIndex(k, z, pos))
                  = StoredPixel(z, EntryIndex(k, z, pos), ops[t].lmeta)]_vars

\* A call is persisting a re-assembled buffer while the table holds an entry
\* whose value the buffer does not have at the entry's pixel.
C30_Witness ==
  \E t \in TaskIds :
    /\ ops[t].path \in {"backfill", "reindex"} /\ ops[t].pc = "put"
    /\ \E k \in 1..Len(dataTable) :
         /\ EntryInGrid(k, ops[t].z)
         /\ EntryValue(dataTable[k], "O2") = MaxVal
         /\ ArrGet(heap[ops[t].arr].data, EntryIndex(k, ops[t].z, 1)) # MaxVal

\* ---------------------------------------------------------------------------
\* The gateway writes of a flush.

\* Flush f takes a step.
FlushStepOf(f) == flushes[f].pc = "run" /\ flushes'[f] # flushes[f]

\* The step of flush f is the metadata put of layer z, resolved.
MetaWritten(f, z) ==
  /\ FlushStepOf(f)
  /\ z \in DOMAIN flushes[f].chains
  /\ flushes[f].chains[z].pc = "meta"
  /\ z \in DOMAIN flushes'[f].chains /\ flushes'[f].chains[z].pc = "done"

\* C31: a flush issues gateway writes only for the (z, quadrant) pairs of the
\* swapped-out dirty set and leaves every other stored quadrant unchanged; it
\* writes layer z's metadata only after every dirty quadrant of z has been
\* written and verified, and not at all when a quadrant of z failed terminally.
C31_FlushWritesOnlyDirty ==
  [][\A f \in FlushIds :
       FlushStepOf(f) =>
         /\ \A k \in DOMAIN gwLayer' :
              (k \notin DOMAIN gwLayer \/ gwLayer'[k] # gwLayer[k])
                => (k[1] \in DOMAIN flushes[f].snapshot
                      /\ k[2] \in flushes[f].snapshot[k[1]])
         /\ DOMAIN gwLayer \subseteq DOMAIN gwLayer'
         /\ \A z \in Layers :
              MetaWritten(f, z) =>
                \A qi \in flushes[f].snapshot[z] : <<z, qi>> \in flushes[f].stored
         /\ (gwLmeta' # gwLmeta) => \E z \in Layers : MetaWritten(f, z)
         /\ \A z \in DOMAIN flushes[f].chains :
              flushes[f].chains[z].pc = "failed" => gwLmeta' = gwLmeta]_vars

\* A flush of two dirty quadrants raised after it had stored one of them; the
\* layer's metadata and the other stored quadrants are as they were.
C31_Witness ==
  \E f \in FlushIds :
    /\ flushes[f].pc = "idle" /\ flushes[f].ended /\ flushes[f].raised
    /\ 0 \in DOMAIN flushes[f].snapshot
    /\ Cardinality(flushes[f].snapshot[0]) = 2
    /\ Cardinality(flushes[f].stored) = 1
    /\ flushes[f].failedAt # "meta"

\* ---------------------------------------------------------------------------
\* The template's quadrant count: the gateway holds the template an earlier
\* session stored for schema 1, with a count that may differ from the
\* configured quadrantCount; ensureDenseLayer calls and evolveSchema calls
\* interleave at their awaits, every gateway call succeeds.

TemplateCounts == {2, 4}

InitTemplate ==
  \E fields \in InitialFields, qc \in TemplateCounts, tc \in TemplateCounts :
    LET nuc == pickNucleusByDirection(GridCells, GridCells, DefaultDir)
    IN  /\ InitState(fields, qc, TRUE, GridCells, GridCells, nuc,
                     [z \in Layers |-> nuc], [i \in {1} |-> tc],
                     [pc |-> "done", z |-> 0])
        /\ ~ dirtyIsMap

NextTemplate ==
  \/ \E t \in TaskIds, z \in Layers :
       ensureMiss(t, "ensure", z, [x |-> 0, y |-> 0], "", 0)
  \/ evolveSchema([isArray |-> TRUE, names |-> <<"O2", "N2">>])
  \/ EvolvePut(TRUE)
  \/ \E t \in TaskIds : OpTmplGet(t, TRUE)
  \/ \E t \in TaskIds : OpTmplPut(t, TRUE)
  \/ \E t \in TaskIds : OpLmetaGet(t, TRUE)
  \/ \E t \in TaskIds : OpBufGet(t, TRUE)
  \/ \E t \in TaskIds : OpPut(t, TRUE)
  \/ \E t \in TaskIds : OpGet(t, TRUE)
  \/ \E t \in TaskIds : OpMeta(t, TRUE)

SpecTemplate == InitTemplate /\ [][NextTemplate]_vars

\* Call t returns its buffer in this step.
MissReturns(t) == ops[t].op = "ensure" /\ ops'[t].op = "idle" /\ ~ ops'[t].err

\* Call t slices a quadrant for its idbPut in this step.
MissSlices(t) == ops[t].pc = "put" /\ ops'[t] # ops[t]

\* C32: after an ensureDenseLayer call that missed the cache, quadrantCount
\* is the number of quadrants of the zero template the call loaded, and the
\* layout the call slices with after loading it is the one of that count.
C32_CountFollowsTemplate ==
  [][\A t \in TaskIds :
       /\ MissReturns(t) => quadrantCount' = ops[t].qCount
       /\ MissSlices(t) =>
            _ensureLayout(quadrantCount) = _quadrantLayout(ops[t].qCount)]_vars

\* ---------------------------------------------------------------------------
\* What a failing flush does to the dirty set.

\* The timer callback takes the snapshot of flush f in this step.
FlushSnapshots(f) == flushes[f].pc = "idle" /\ flushes'[f].pc = "run"

\* C33: a quadrant that fails terminally is dropped, not re-queued: a flush
\* empties the dirty set when it takes its snapshot and no later step of it,
\* the raising one and its end included, puts a pair back; a pair of a raised
\* flush is in the dirty set only when a write marked it.
C33_FailedPairDropped ==
  [][\A f \in FlushIds :
       /\ FlushSnapshots(f) => dirtyLayers' = EmptyMap
       /\ FlushStepOf(f) => dirtyLayers' = dirtyLayers]_vars

\* A flush raised on a quadrant put or read-back, ended, and the pair it
\* could not store is not in the dirty set.
C33_Witness ==
  \E f \in FlushIds :
    /\ flushes[f].pc = "idle" /\ flushes[f].ended /\ flushes[f].raised
    /\ flushes[f].failedAt \in {"put", "get"}
    /\ \E z \in DOMAIN flushes[f].snapshot :
         \E qi \in flushes[f].snapshot[z] :
           /\ <<z, qi>> \notin flushes[f].stored
           /\ z \notin DOMAIN dirtyLayers

\* ---------------------------------------------------------------------------
\* The flusher after a terminal persistence failure.

LostPairs(f) ==
  { k \in { <<z, qi>> : z \in DOMAIN flushes[f].snapshot, qi \in 0..(quadrantCount - 1) } :
      /\ k[2] \in flushes[f].snapshot[k[1]]
      /\ k \notin flushes[f].stored
      /\ ~ (k[1] \in DOMAIN dirtyLayers /\ k[2] \in dirtyLayers[k[1]]) }

NothingInFlight ==
  /\ \A t \in TaskIds : ops[t].op = "idle"
  /\ \A f \in FlushIds : flushes[f].pc = "idle"

NextUnflushed ==
  \/ Calls({1}, {[x |-> 0, y |-> 0], [x |-> 3, y |-> 3]}, {"O2"}, {1})
  \/ \E z \in Layers : ensureHit(z)
  \/ \E t \in TaskIds : OpTmplGet(t, TRUE)
  \/ \E t \in TaskIds : OpLmetaGet(t, TRUE)
  \/ \E t \in TaskIds : OpBufGet(t, TRUE)
  \/ \E t \in TaskIds : OpPut(t, TRUE)
  \/ \E t \in TaskIds : OpGet(t, TRUE)
  \/ \E t \in TaskIds : OpMeta(t, TRUE)
  \/ \E tm \in TimerIds, f \in FlushIds : timerFire(tm, f)
  \/ \E f \in FlushIds, z \in Layers : flushPut(f, z, TRUE)
  \/ \E f \in FlushIds, z \in Layers : flushGet(f, z, TRUE)
  \/ \E f \in FlushIds, z \in Layers : flushMeta(f, z, TRUE)
  \/ \E f \in FlushIds : flushEnd(f)
  \/ \E p \in TimerParams : NothingInFlight /\ updateGrid(p)
  \/ UpdLayoutPut(TRUE)
  \/ UpdSchemaPut(TRUE)
  \/ UpdNucPut(TRUE)
  \/ UpdTmplGet(TRUE)

\* The instance keeps its dirty marks in a Map, so that writes are marked.
InitUnflushed == InitDurable /\ dirtyIsMap

SpecUnflushed == InitUnflushed /\ [][NextUnflushed]_vars

\* The value of O2 at cell (x, y) in the buffer contents data of layer z.
ValueIn(data, z, x, y) ==
  LET pix == _mapCellToDense(z, x, y)
  IN  OrZero(ArrGet(data, _denseIdx(Len(schema.fieldNames), pix.bx, pix.by,
                                    IndexOf(schema.fieldNames, "O2") - 1)))

InitOpening(fields, sch, stored, lmeta) ==
  LET nuc == pickNucleusByDirection(GridCells, GridCells, DefaultDir)
      old == sch # <<>>
  IN  /\ schema = [id |-> 1, fieldNames |-> fields]
      /\ db = FALSE
      /\ dirtyIsMap = TRUE
      /\ disposed = FALSE
      /\ quadrantCount = 4
      /\ cells = [x |-> GridCells, y |-> GridCells]
      /\ nuclei = [z \in Layers |-> nuc]
      /\ dataTable = <<>>
      /\ heap = EmptyMap
      /\ layerCache = EmptyMap
      /\ dirtyLayers = EmptyMap
      /\ flushHandle = 0
      /\ timers = {}
      /\ maxField = [f \in FieldNames |-> 0]
      /\ gwSchema = sch
      /\ gwNuc = IF old THEN [z \in Layers |-> nuc] ELSE EmptyMap
      /\ gwTmpl = IF old THEN FirstTemplate(4) ELSE EmptyMap
      /\ gwLayer = stored
      /\ gwLmeta = lmeta
      /\ ops = [t \in TaskIds |-> NoOp]
      /\ flushes = [f \in FlushIds |-> IdleFlush]
      /\ evo = IdleEvo
      /\ upd = IdleUpd
      /\ initb = [pc |-> "open", z |-> 0, w |-> 0, h |-> 0, dir |-> <<>>,
                  n |-> [x |-> 0, y |-> 0], sid |-> 0, count |-> 0,
                  val |-> [id |-> 0, fields |-> <<>>]]
      /\ faults = 0
      /\ probe = <<>>
      /\ lastWrite = <<>>

InitEarly ==
  \E fields \in InitialFields :
    \/ InitOpening(fields, <<>>, EmptyMap, EmptyMap)
    \/ \E img \in StoredImages :
         InitOpening(fields, <<[id |-> 1, fields |-> fields]>>,
                     SlicesOf(img, 0..3, fields),
                     [z \in {0} |-> [sid |-> 1, fields |-> fields]])

\* The cells the clients of this specification write.
EarlyCells == { [x |-> 0, y |-> 0] }

NextEarly ==
  \/ Calls({1}, EarlyCells, {"O2"}, {1})
  \/ \E t \in TaskIds : OpMem(t)
  \/ \E t \in TaskIds : OpTmplGet(t, TRUE)
  \/ \E t \in TaskIds : OpTmplPut(t, TRUE)
  \/ \E t \in TaskIds : OpLmetaGet(t, TRUE)
  \/ \E t \in TaskIds : OpBufGet(t, TRUE)
  \/ \E t \in TaskIds : OpPut(t, TRUE)
  \/ \E t \in TaskIds : OpGet(t, TRUE)
  \/ \E t \in TaskIds : OpMeta(t, TRUE)
  \/ \E tm \in TimerIds, f \in FlushIds : timerFire(tm, f)
  \/ \E f \in FlushIds, z \in Layers : flushPut(f, z, TRUE)
  \/ \E f \in FlushIds, z \in Layers : flushGet(f, z, TRUE)
  \/ \E f \in FlushIds, z \in Layers : flushMeta(f, z, TRUE)
  \/ \E f \in FlushIds : flushEnd(f)
  \/ \E ok \in BOOLEAN : initOpen(ok)
  \/ initLayoutPut(TRUE)
  \/ initSchemaGet(TRUE)
  \/ initSchemaPut(TRUE)
  \/ initNucGet(TRUE)
  \/ initNucPut(TRUE)
  \/ initTmplGet(TRUE)
  \/ initTmplPut(TRUE)

SpecEarly == InitEarly /\ [][NextEarly]_vars

\* The stored slice of the pair k laid out at its place in a layer buffer.
SliceInPlace(slice, qi) ==
  _insertQuadrant(ZeroArr(Len(slice.fields)), qi, slice.data, Len(slice.fields),
                  _ensureLayout(quadrantCount))

\* The buffer elements of layer z that the writes of this specification set.
WrittenElements(z) ==
  { _denseIdx(Len(schema.fieldNames), _mapCellToDense(z, c.x, c.y).bx,
              _mapCellToDense(z, c.x, c.y).by, 0) : c \in EarlyCells }

MarkCounts == 1..DEFAULT_QUADRANT_COUNT

CornerCells == { [x |-> x, y |-> y] : x \in {0, GridCells - 1}, y \in {0, GridCells - 1} }

InitMark ==
  \E q \in MarkCounts, fields \in InitialFields : InitReady(fields, q, FALSE) /\ dirtyIsMap

NextMark ==
  \/ Calls({1}, CornerCells, {"O2"}, {1})
  \/ \E t \in TaskIds : OpMem(t)

SpecMark == InitMark /\ [][NextMark]_vars

StoredSchemas ==
  { <<>>, <<[id |-> 1, fields |-> <<"O2">>]>>, <<[id |-> 2, fields |-> <<"O2">>]>>,
    <<[id |-> 1, fields |-> <<"O2", "N2">>]>> }

AdoptFields == [isArray |-> TRUE, names |-> <<"O2", "N2">>]

InitAdopt ==
  \E fields \in InitialFields, sch \in StoredSchemas :
    InitOpening(fields, sch, EmptyMap, EmptyMap)

NextAdopt ==
  \/ evolveSchema(AdoptFields)
  \/ EvolvePut(TRUE)
  \/ updateGrid([cells |-> 0, fields |-> AdoptFields, dir |-> DefaultDir])
  \/ UpdReset
  \/ UpdLayoutPut(TRUE)
  \/ UpdSchemaPut(TRUE)
  \/ UpdNucPut(TRUE)
  \/ UpdTmplGet(TRUE)
  \/ UpdTmplPut(TRUE)
  \/ \E ok \in BOOLEAN : initOpen(ok)
  \/ initLayoutPut(TRUE)
  \/ initSchemaGet(TRUE)
  \/ initSchemaPut(TRUE)
  \/ initNucGet(TRUE)
  \/ initNucPut(TRUE)
  \/ initTmplGet(TRUE)
  \/ initTmplPut(TRUE)

SpecAdopt == InitAdopt /\ [][NextAdopt]_vars

\* C39: over the lifetime of a grid instance the in-memory schema id never
\* decreases, whatever the interleaving of evolveSchema, updateGrid and the
\* reconciliation of _initBuckets.
C39_SchemaIdMonotone == [][schema'.id >= schema.id]_vars

\* ---------------------------------------------------------------------------
\* _mapCellToDense over the cells of a layer: grids whose cell counts divide
\* the dense dimensions, the nucleus being the one pickNucleusByDirection
\* returns for the grid and a direction.

MapSizes == { n \in 1..DENSE_W : DENSE_W % n = 0 /\ DENSE_H % n = 0 }

InitMap ==
  \E fields \in InitialFields, w \in MapSizes, h \in MapSizes, dir \in PickDirs :
    LET nuc == pickNucleusByDirection(w, h, dir)
    IN  /\ InitState(fields, 4, FALSE, w, h, nuc, EmptyMap, EmptyMap,
                     [pc |-> "unavailable", z |-> 0])
        /\ ~ dirtyIsMap

\* _mapCellToDense(z, a.x, a.y) and _mapCellToDense(z, b.x, b.y) are called
\* and their results observed.
mapPairProbe(z, a, b) ==
  /\ probe' = <<[z |-> z, a |-> a, b |-> b,
                 pa |-> _mapCellToDense(z, a.x, a.y),
                 pb |-> _mapCellToDense(z, b.x, b.y)]>>
  /\ UNCHANGED <<memVars, gwVars, taskVars, faults, lastWrite>>

NextMap ==
  \E z \in Layers, ax \in 0..(cells.x - 1), ay \in 0..(cells.y - 1),
     bx \in 0..(cells.x - 1), by \in 0..(cells.y - 1) :
       mapPairProbe(z, [x |-> ax, y |-> ay], [x |-> bx, y |-> by])

SpecMap == InitMap /\ [][NextMap]_vars

\* C40: for cell counts that divide the dense dimensions, _mapCellToDense
\* maps distinct in-range cells of a layer to distinct dense pixels, whatever
\* nucleus pickNucleusByDirection returned.
C40_DistinctCellsDistinctPixels ==
  \A k \in 1..Len(probe) : probe[k].a # probe[k].b => probe[k].pa # probe[k].pb

=============================================================================
